---- MODULE Spec2Model ----
(***************************************************************************)
(* Towers of Hanoi: the Program Loop, the Controller and the two models    *)
(* (Menu Model, Game Model) as a state machine.                            *)
(*                                                                         *)
(* Objects are records; a method of a model is an operator from the model  *)
(* record to the model record after the call.  A method of the controller  *)
(* is an operator on `self`, the controller with the model it references   *)
(* dereferenced (self.model is the model record) and with the log of the   *)
(* model methods it has called during the current handle_input.            *)
(***************************************************************************)
EXTENDS Integers, Sequences, FiniteSets, TLC

VARIABLES
    menu_model,     \* ProgramLoop.menu_model: the long-lived MenuModel
    game_model,     \* the GameModel of the running session (None outside one)
    controller,     \* ProgramController: model (a reference) and its flags
    current_state,  \* ProgramLoop.current_state: MENU or GAME
    running,        \* ProgramLoop.running
    screen,         \* ProgramLoop.screen: the size of the display surface
    pc,             \* the position of run_program
    calls,          \* the model methods handle_input called in this loop iteration
    disc_num,       \* the disc_num the running GameModel was constructed with
    toggles,        \* toggle-button clicks dispatched so far (bounded by MaxToggles)
    renderer        \* ProgramLoop.renderer: the GameRenderer and its assets

vars == <<menu_model, game_model, controller, current_state, running, screen,
          pc, calls, disc_num, toggles, renderer>>

\* Bound on the toggle-button clicks of one run.
MaxToggles == 2

\* Python's None, for the fields that hold enum members or buttons.
None == "None"
\* selected_tower = None (tower indices are 0..2).
NoTower == -1

---------------------------------------------------------------------------
(* constants.py *)

MENU == "MENU"
GAME == "GAME"
ILLEGAL_MOVE == "ILLEGAL_MOVE"
VICTORY == "VICTORY"
MenuState == {"MAIN", "OPTIONS", "TUTORIAL", "CREDITS"}
\* MenuTheme members by value: STANDARD = 0, RED = 1, BLUE = 2.
MenuTheme == <<"STANDARD", "RED", "BLUE">>
ButtonFlag == {"PLAY", "OPTIONS", "EXIT", "TUTORIAL", "CREDITS",
               "DIFFICULTY_TOGGLE", "RESOLUTION_TOGGLE", "THEME_TOGGLE",
               "BACK_TO_MAIN", "ACCEPT_SETTINGS", "RESET_BOARD"}

UserInput(position, clicked) == [position |-> position, clicked |-> clicked]

\* The index (from 1) of the first occurrence of v in the sequence s: list.index.
IndexOf(s, v) == CHOOSE i \in 1..Len(s) : s[i] = v /\ \A j \in 1..(i - 1) : s[j] # v

---------------------------------------------------------------------------
(* models/button_container.py: a button is its flag and its hit rectangle *)

BUTTON_POSITIONS ==
    [f \in ButtonFlag |->
        CASE f = "PLAY" -> <<480, 300>>
          [] f = "OPTIONS" -> <<480, 400>>
          [] f = "EXIT" -> <<480, 500>>
          [] f = "TUTORIAL" -> <<140, 570>>
          [] f = "CREDITS" -> <<820, 570>>
          [] f = "DIFFICULTY_TOGGLE" -> <<400, 220>>
          [] f = "RESOLUTION_TOGGLE" -> <<400, 340>>
          [] f = "THEME_TOGGLE" -> <<400, 460>>
          [] f = "ACCEPT_SETTINGS" -> <<480, 560>>
          [] f = "RESET_BOARD" -> <<900, 60>>
          [] f = "BACK_TO_MAIN" -> <<60, 60>>]

STANDARD_BUTTON_SIZE == <<200, 80>>
SMALL_BUTTON_SIZE == <<75, 75>>

\* Mutant: the standard buttons are 120 high.
ButtonRect_tall(flag) ==
    LET button_size == IF flag \in {"BACK_TO_MAIN", "RESET_BOARD"}
                       THEN SMALL_BUTTON_SIZE ELSE <<200, 120>>
        position == BUTTON_POSITIONS[flag]
    IN  [left |-> position[1] - (button_size[1] \div 2),
         top |-> position[2] - (button_size[2] \div 2),
         width |-> button_size[1],
         height |-> button_size[2]]

\* Rect(0, 0, w, h) with rect.center = position: left = cx - w // 2, top = cy - h // 2.
ButtonRect(flag) ==
    LET button_size == IF flag \in {"BACK_TO_MAIN", "RESET_BOARD"}
                       THEN SMALL_BUTTON_SIZE ELSE STANDARD_BUTTON_SIZE
        position == BUTTON_POSITIONS[flag]
    IN  [left |-> position[1] - (button_size[1] \div 2),
         top |-> position[2] - (button_size[2] \div 2),
         width |-> button_size[1],
         height |-> button_size[2]]

\* pygame.Rect.collidepoint: the right and bottom edges are outside.
collidepoint(rect, p) ==
    /\ rect.left <= p[1] /\ p[1] < rect.left + rect.width
    /\ rect.top <= p[2] /\ p[2] < rect.top + rect.height

\* create_buttons keeps the order of the flags; a button is named by its flag.
create_buttons(button_flags) == button_flags

---------------------------------------------------------------------------
(* models/game_model.py *)

\* [x for x in range(disc_num - 1, -1, -1)]
DescendingDiscs(n) == [i \in 1..n |-> n - i]

GameModel(n) ==
    [towers |-> [t \in 0..2 |-> IF t = 0 THEN DescendingDiscs(n) ELSE <<>>],
     active_buttons |-> create_buttons(<<"RESET_BOARD", "BACK_TO_MAIN">>),
     highlighted_button |-> None,
     selected_tower |-> NoTower,
     notification |-> None]

\* The top of a tower is the last element of its list.
Top(tower) == tower[Len(tower)]

\* Mutant: the sizes of the two top discs are not compared.
check_move_legal_no_size(m, from_tower, to_tower) ==
    IF m.towers[from_tower] = <<>> THEN FALSE ELSE TRUE

\* Mutant: the comparison of the two top discs is the wrong way round.
check_move_legal_reversed(m, from_tower, to_tower) ==
    IF m.towers[from_tower] = <<>> THEN FALSE
    ELSE IF m.towers[to_tower] = <<>> THEN TRUE
    ELSE Top(m.towers[from_tower]) > Top(m.towers[to_tower])

check_move_legal(m, from_tower, to_tower) ==
    IF m.towers[from_tower] = <<>> THEN FALSE
    ELSE IF m.towers[to_tower] = <<>> THEN TRUE
    ELSE Top(m.towers[from_tower]) < Top(m.towers[to_tower])

\* Mutant: the disc is appended to the destination but not popped from the source.
move_disc_no_pop(m, from_tower, to_tower) ==
    [m EXCEPT !.towers[to_tower] = Append(@, Top(m.towers[from_tower]))]

\* pop() of the source, then append to the destination (the two may be the same
\* list).  pop() of an empty list raises IndexError: see _execute_move.
move_disc(m, from_tower, to_tower) ==
    LET moved_disc == Top(m.towers[from_tower])
        popped == [m.towers EXCEPT
                     ![from_tower] = SubSeq(@, 1, Len(@) - 1)]
    IN  [m EXCEPT !.towers = [popped EXCEPT ![to_tower] = Append(@, moved_disc)]]

\* Mutant: the wrong pair of towers is tested.
is_complete_wrong_towers(m) ==
    IF m.towers[1] # <<>> \/ m.towers[2] # <<>> THEN FALSE ELSE TRUE

is_complete(m) ==
    IF m.towers[0] # <<>> \/ m.towers[1] # <<>> THEN FALSE ELSE TRUE

\* Mutant: the board is rebuilt with the default number of discs.
reset_board_default_discs(m) ==
    [m EXCEPT !.selected_tower = NoTower,
              !.towers = [t \in 0..2 |-> IF t = 0 THEN DescendingDiscs(3) ELSE <<>>]]

\* Mutant: the rebuilt tower has one disc too many (range(disc_num, -1, -1)).
reset_board_one_more_disc(m) ==
    LET n == Len(m.towers[0]) + Len(m.towers[1]) + Len(m.towers[2])
    IN  [m EXCEPT !.selected_tower = NoTower,
                  !.towers = [t \in 0..2 |-> IF t = 0 THEN DescendingDiscs(n + 1) ELSE <<>>]]

reset_board(m) ==
    LET n == Len(m.towers[0]) + Len(m.towers[1]) + Len(m.towers[2])
    IN  [m EXCEPT !.selected_tower = NoTower,
                  !.towers = [t \in 0..2 |-> IF t = 0 THEN DescendingDiscs(n) ELSE <<>>]]

set_selected_tower(m, tower) == [m EXCEPT !.selected_tower = tower]
set_notification(m, new_notification) == [m EXCEPT !.notification = new_notification]
clear_notification(m) == [m EXCEPT !.notification = None]

\* set_highlight / clear_highlight are the same in both models.
set_highlight(m, new_highlight) == [m EXCEPT !.highlighted_button = new_highlight]
clear_highlight(m) == [m EXCEPT !.highlighted_button = None]

---------------------------------------------------------------------------
(* models/menu_model.py *)

main_menu_buttons == <<"PLAY", "OPTIONS", "EXIT", "TUTORIAL", "CREDITS">>
option_menu_buttons == <<"DIFFICULTY_TOGGLE", "RESOLUTION_TOGGLE", "THEME_TOGGLE",
                         "ACCEPT_SETTINGS", "BACK_TO_MAIN">>

resolutions == <<(<<720, 480>>), (<<864, 576>>), (<<960, 640>>), (<<1080, 720>>),
                 (<<1296, 864>>)>>
difficulties == <<3, 4, 5>>

update_menu_state(m, new_state) ==
    LET button_list == IF new_state = "MAIN" THEN main_menu_buttons
                       ELSE IF new_state = "OPTIONS" THEN option_menu_buttons
                       ELSE <<>>
    IN  [m EXCEPT !.current_menu = new_state,
                  !.active_buttons = create_buttons(button_list)]

\* settings_select_display is the list [theme, resolution, difficulty], indices 0..2.
MenuModel ==
    update_menu_state(
        [settings |-> [theme |-> "STANDARD", resolution |-> <<960, 640>>, difficulty |-> 3],
         current_menu |-> None,
         active_buttons |-> <<>>,
         highlighted_button |-> None,
         settings_select_display |-> (0 :> "STANDARD" @@ 1 :> <<960, 640>> @@ 2 :> 3),
         tutorial_slide |-> 0,
         total_tutorial_slides |-> 8],
        "MAIN")

\* Mutant: the last slide is skipped (the end is found one slide early).
tutorial_step_one_early(m) ==
    LET slide == m.tutorial_slide + 1
    IN  IF slide = m.total_tutorial_slides - 1
        THEN [model |-> [m EXCEPT !.tutorial_slide = 0], result |-> TRUE]
        ELSE [model |-> [m EXCEPT !.tutorial_slide = slide], result |-> FALSE]

\* The model after the call and the value returned.
\* Mutant: the slide index is not put back to 0 at the end.
tutorial_step_no_reset(m) ==
    LET slide == m.tutorial_slide + 1
    IN  IF slide = m.total_tutorial_slides
        THEN [model |-> [m EXCEPT !.tutorial_slide = slide], result |-> TRUE]
        ELSE [model |-> [m EXCEPT !.tutorial_slide = slide], result |-> FALSE]

tutorial_step(m) ==
    LET slide == m.tutorial_slide + 1
    IN  IF slide = m.total_tutorial_slides
        THEN [model |-> [m EXCEPT !.tutorial_slide = 0], result |-> TRUE]
        ELSE [model |-> [m EXCEPT !.tutorial_slide = slide], result |-> FALSE]

cycle_theme_displayed(m) ==
    LET current_theme == m.settings_select_display[0]
        next_value == ((IndexOf(MenuTheme, current_theme) - 1) + 1) % Len(MenuTheme)
    IN  [m EXCEPT !.settings_select_display[0] = MenuTheme[next_value + 1]]

\* Mutant: the last resolution of the list is not followed by the first.
cycle_resolution_displayed_no_wrap(m) ==
    LET current_idx == IndexOf(resolutions, m.settings_select_display[1]) - 1
        next_idx == IF current_idx + 1 < Len(resolutions) THEN current_idx + 1
                    ELSE current_idx
    IN  [m EXCEPT !.settings_select_display[1] = resolutions[next_idx + 1]]

cycle_resolution_displayed(m) ==
    LET current_idx == IndexOf(resolutions, m.settings_select_display[1]) - 1
        next_idx == (current_idx + 1) % Len(resolutions)
    IN  [m EXCEPT !.settings_select_display[1] = resolutions[next_idx + 1]]

\* Mutant: the difficulty after the last one is one disc more.
cycle_difficulty_displayed_one_more(m) ==
    [m EXCEPT !.settings_select_display[2] = @ + 1]

\* Mutant: the next difficulty is written to the applied settings too.
cycle_difficulty_displayed_applies(m) ==
    LET current_idx == IndexOf(difficulties, m.settings_select_display[2]) - 1
        next_idx == (current_idx + 1) % Len(difficulties)
    IN  [m EXCEPT !.settings_select_display[2] = difficulties[next_idx + 1],
                  !.settings.difficulty = difficulties[next_idx + 1]]

cycle_difficulty_displayed(m) ==
    LET current_idx == IndexOf(difficulties, m.settings_select_display[2]) - 1
        next_idx == (current_idx + 1) % Len(difficulties)
    IN  [m EXCEPT !.settings_select_display[2] = difficulties[next_idx + 1]]

\* Mutant: the staged difficulty is not reset.
reset_displayed_settings_keeps_difficulty(m) ==
    [m EXCEPT !.settings_select_display =
        (0 :> m.settings.theme @@ 1 :> m.settings.resolution
           @@ 2 :> m.settings_select_display[2])]

reset_displayed_settings(m) ==
    [m EXCEPT !.settings_select_display =
        (0 :> m.settings.theme @@ 1 :> m.settings.resolution @@ 2 :> m.settings.difficulty)]

implement_displayed_settings(m) ==
    [m EXCEPT !.settings =
        [theme |-> m.settings_select_display[0],
         resolution |-> m.settings_select_display[1],
         difficulty |-> m.settings_select_display[2]]]

---------------------------------------------------------------------------
(* controllers/controller.py *)

LEFT_TOWER_BOUNDARY == 320
RIGHT_TOWER_BOUNDARY == 640

\* A call of a model method, as logged: its name, its arguments, what it returned
\* (None for a method that returns nothing), and what the model held at the call:
\* the towers and the selected tower of a Game Model, the applied and the staged
\* settings of a Menu Model.
Call(op, args, result, m) ==
    [op |-> op, args |-> args, result |-> result,
     towers |-> IF "towers" \in DOMAIN m THEN m.towers ELSE <<>>,
     selected_tower |-> IF "towers" \in DOMAIN m THEN m.selected_tower ELSE NoTower,
     settings |-> IF "settings" \in DOMAIN m THEN m.settings ELSE None,
     settings_select_display |->
        IF "settings" \in DOMAIN m THEN m.settings_select_display ELSE <<>>]

Logged(self, call) == [self EXCEPT !.calls = Append(@, call)]

ProgramController ==
    [model |-> "menu_model",
     model_updated |-> FALSE,
     next_state |-> None,
     exit_flag |-> FALSE,
     asset_package_updated |-> FALSE,
     resolution_updated |-> FALSE]

\* Mutant: the exit request is cleared with the two settings flags.
reset_settings_update_flags_clears_exit(c) ==
    [c EXCEPT !.asset_package_updated = FALSE, !.resolution_updated = FALSE,
              !.exit_flag = FALSE]

reset_settings_update_flags(c) ==
    [c EXCEPT !.asset_package_updated = FALSE, !.resolution_updated = FALSE]

reset_render_flag(c) == [c EXCEPT !.model_updated = FALSE]

\* Mutant: the transition request is not cleared.
update_state_keeps_request(c, new_model) ==
    [c EXCEPT !.model = new_model, !.model_updated = TRUE]

update_state(c, new_model) ==
    [c EXCEPT !.model = new_model, !.next_state = None, !.model_updated = TRUE]

\* Mutant: the highlight is updated under a notification too.
_should_update_highlight_always(self, program_state) == TRUE

\* Mutant: the highlight is left alone only under VICTORY.
_should_update_highlight_victory_only(self, program_state) ==
    ~(program_state = GAME /\ self.model.notification = VICTORY)

\* Mutant: the highlight is never updated in GAME mode.
_should_update_highlight_menu_only(self, program_state) == program_state # GAME

_should_update_highlight(self, program_state) ==
    ~(program_state = GAME /\ self.model.notification # None)

\* Mutant: a highlight that is cleared is replaced at once by the button under the
\* cursor.
_update_highlight_replaces(self, cursor_position) ==
    LET s1 == IF /\ self.model.highlighted_button # None
                 /\ ~collidepoint(ButtonRect(self.model.highlighted_button),
                                  cursor_position)
              THEN [self EXCEPT !.model = clear_highlight(@), !.model_updated = TRUE]
              ELSE self
        buttons == s1.model.active_buttons
        hit == {i \in 1..Len(buttons) :
                   collidepoint(ButtonRect(buttons[i]), cursor_position)}
    IN  IF s1.model.highlighted_button # None \/ hit = {} THEN s1
        ELSE LET first == CHOOSE i \in hit : \A j \in hit : i <= j
             IN  [s1 EXCEPT !.model = set_highlight(@, buttons[first]),
                            !.model_updated = TRUE]

_update_highlight(self, cursor_position) ==
    IF self.model.highlighted_button # None
    THEN IF ~collidepoint(ButtonRect(self.model.highlighted_button), cursor_position)
         THEN [self EXCEPT !.model = clear_highlight(@), !.model_updated = TRUE]
         ELSE self
    ELSE LET buttons == self.model.active_buttons
             hit == {i \in 1..Len(buttons) :
                        collidepoint(ButtonRect(buttons[i]), cursor_position)}
         IN  IF hit = {} THEN self
             ELSE LET first == CHOOSE i \in hit : \A j \in hit : i <= j
                  IN  [self EXCEPT !.model = set_highlight(@, buttons[first]),
                                   !.model_updated = TRUE]

_handle_start_gameplay(self) == [self EXCEPT !.next_state = GAME]

\* Mutant: the OPTIONS screen is entered with the staged values left as they were.
_handle_enter_options_keeps_staged(self) ==
    [self EXCEPT !.model = update_menu_state(@, "OPTIONS")]

_handle_enter_options(self) ==
    [self EXCEPT !.model = update_menu_state(reset_displayed_settings(@), "OPTIONS")]

_handle_program_exit(self) == [self EXCEPT !.exit_flag = TRUE]

\* Mutant: the staged values are committed before they are compared.
_handle_accept_options_commits_first(self) ==
    LET m == implement_displayed_settings(self.model)
        s1 == IF m.settings.theme # m.settings_select_display[0]
              THEN [self EXCEPT !.asset_package_updated = TRUE] ELSE self
        s2 == IF m.settings.resolution # m.settings_select_display[1]
              THEN [s1 EXCEPT !.resolution_updated = TRUE] ELSE s1
    IN  [s2 EXCEPT !.model = update_menu_state(m, "MAIN")]

_handle_accept_options(self) ==
    LET m == self.model
        s1 == IF m.settings.theme # m.settings_select_display[0]
              THEN [self EXCEPT !.asset_package_updated = TRUE] ELSE self
        s2 == IF m.settings.resolution # m.settings_select_display[1]
              THEN [s1 EXCEPT !.resolution_updated = TRUE] ELSE s1
    IN  [s2 EXCEPT !.model = update_menu_state(implement_displayed_settings(@), "MAIN")]

\* button_handlers[current_flag](); a flag with no handler (RESET_BOARD) is a KeyError.
button_handlers(self, flag) ==
    CASE flag = "PLAY" -> _handle_start_gameplay(self)
      [] flag = "OPTIONS" -> _handle_enter_options(self)
      [] flag = "EXIT" -> _handle_program_exit(self)
      [] flag = "ACCEPT_SETTINGS" -> _handle_accept_options(self)
      [] flag = "TUTORIAL" -> [self EXCEPT !.model = update_menu_state(@, "TUTORIAL")]
      [] flag = "CREDITS" -> [self EXCEPT !.model = update_menu_state(@, "CREDITS")]
      [] flag = "BACK_TO_MAIN" -> [self EXCEPT !.model = update_menu_state(@, "MAIN")]
      [] flag = "DIFFICULTY_TOGGLE" ->
            [self EXCEPT !.model = cycle_difficulty_displayed(@)]
      [] flag = "RESOLUTION_TOGGLE" ->
            [self EXCEPT !.model = cycle_resolution_displayed(@)]
      [] flag = "THEME_TOGGLE" -> [self EXCEPT !.model = cycle_theme_displayed(@)]
      [] OTHER -> [self EXCEPT !.raised = TRUE]

_resolve_menu_click(self) ==
    IF self.model.current_menu = "CREDITS"
    THEN [self EXCEPT !.model_updated = TRUE, !.model = update_menu_state(@, "MAIN")]
    ELSE IF self.model.current_menu = "TUTORIAL"
    THEN LET step == tutorial_step(self.model)
         IN  [self EXCEPT !.model_updated = TRUE,
                          !.model = IF step.result
                                    THEN update_menu_state(step.model, "MAIN")
                                    ELSE step.model]
    ELSE IF self.model.highlighted_button # None
    THEN LET current_flag == self.model.highlighted_button
         IN  button_handlers(
                Logged([self EXCEPT !.model_updated = TRUE],
                       Call("button_handlers", <<current_flag>>, None, self.model)),
                current_flag)
    ELSE self

\* Mutant: dismissing a notification does not mark the frame for drawing.
_resolve_notification_no_redraw(self) ==
    IF self.model.notification = VICTORY
    THEN [self EXCEPT !.next_state = MENU]
    ELSE [self EXCEPT !.model = clear_notification(@)]

\* Mutant: dismissing a notification also clears the selection.
_resolve_notification_deselects(self) ==
    IF self.model.notification = VICTORY
    THEN [self EXCEPT !.next_state = MENU]
    ELSE [self EXCEPT !.model = set_selected_tower(clear_notification(@), NoTower),
                      !.model_updated = TRUE]

_resolve_notification(self) ==
    IF self.model.notification = VICTORY
    THEN [self EXCEPT !.next_state = MENU]
    ELSE [self EXCEPT !.model = clear_notification(@), !.model_updated = TRUE]

_handle_game_button_click(self) ==
    LET s1 == [self EXCEPT !.model_updated = TRUE]
        s2 == IF s1.model.highlighted_button = "BACK_TO_MAIN"
              THEN [s1 EXCEPT !.next_state = MENU] ELSE s1
    IN  IF s2.model.highlighted_button = "RESET_BOARD"
        THEN [Logged(s2, Call("reset_board", <<>>, None, s2.model))
                EXCEPT !.model = reset_board(@)]
        ELSE s2

\* Mutant: the left boundary belongs to tower 0.
_find_clicked_tower_left_inclusive(position) ==
    IF position[1] <= LEFT_TOWER_BOUNDARY THEN 0
    ELSE IF position[1] > RIGHT_TOWER_BOUNDARY THEN 2
    ELSE 1

_find_clicked_tower(position) ==
    IF position[1] < LEFT_TOWER_BOUNDARY THEN 0
    ELSE IF position[1] > RIGHT_TOWER_BOUNDARY THEN 2
    ELSE 1

\* Mutant: an empty tower can be selected too.
_attempt_tower_select_any(self, clicked_tower) ==
    [self EXCEPT !.model_updated = TRUE,
                 !.model = set_selected_tower(@, clicked_tower)]

\* Mutant: the frame is marked for drawing also when the tower is empty.
_attempt_tower_select_marks_dirty(self, clicked_tower) ==
    IF self.model.towers[clicked_tower] # <<>>
    THEN [self EXCEPT !.model_updated = TRUE,
                      !.model = set_selected_tower(@, clicked_tower)]
    ELSE [self EXCEPT !.model_updated = TRUE]

_attempt_tower_select(self, clicked_tower) ==
    IF self.model.towers[clicked_tower] # <<>>
    THEN [self EXCEPT !.model_updated = TRUE,
                      !.model = set_selected_tower(@, clicked_tower)]
    ELSE self

\* Mutant: the selection is not cleared after the move.
_execute_move_keeps_selection(self, clicked_tower) ==
    LET from_tower == self.model.selected_tower
        s1 == Logged(self, Call("move_disc", <<from_tower, clicked_tower>>, None,
                                self.model))
    IN  IF self.model.towers[from_tower] = <<>>
        THEN [s1 EXCEPT !.raised = TRUE]
        ELSE LET s2 == [s1 EXCEPT !.model = move_disc(@, from_tower, clicked_tower)]
             IN  IF is_complete(s2.model)
                 THEN [s2 EXCEPT !.model = set_notification(@, VICTORY)]
                 ELSE s2

\* Mutant: the puzzle's completion is not checked after the move.
_execute_move_no_victory(self, clicked_tower) ==
    LET from_tower == self.model.selected_tower
        s1 == Logged(self, Call("move_disc", <<from_tower, clicked_tower>>, None,
                                self.model))
    IN  IF self.model.towers[from_tower] = <<>>
        THEN [s1 EXCEPT !.raised = TRUE]
        ELSE [s1 EXCEPT !.model =
                  set_selected_tower(move_disc(@, from_tower, clicked_tower), NoTower)]

\* move_disc on an empty source tower raises IndexError before it changes anything,
\* and the rest of the handler is not run.
_execute_move(self, clicked_tower) ==
    LET from_tower == self.model.selected_tower
        s1 == Logged(self, Call("move_disc", <<from_tower, clicked_tower>>, None,
                                self.model))
    IN  IF self.model.towers[from_tower] = <<>>
        THEN [s1 EXCEPT !.raised = TRUE]
        ELSE LET s2 == [s1 EXCEPT !.model =
                            set_selected_tower(move_disc(@, from_tower, clicked_tower),
                                               NoTower)]
             IN  IF is_complete(s2.model)
                 THEN [s2 EXCEPT !.model = set_notification(@, VICTORY)]
                 ELSE s2

\* Mutant: the move is executed whatever check_move_legal returned.
_handle_second_tower_click_unchecked(self, clicked_tower) ==
    IF self.model.selected_tower = clicked_tower
    THEN [self EXCEPT !.model = set_selected_tower(@, NoTower)]
    ELSE LET legal == check_move_legal(self.model, self.model.selected_tower,
                                       clicked_tower)
             s1 == Logged(self, Call("check_move_legal",
                                     <<self.model.selected_tower, clicked_tower>>,
                                     legal, self.model))
         IN  _execute_move(s1, clicked_tower)

\* Mutant: a click on the selected tower is treated as a move onto itself.
_handle_second_tower_click_no_toggle(self, clicked_tower) ==
    LET legal == check_move_legal(self.model, self.model.selected_tower, clicked_tower)
        s1 == Logged(self, Call("check_move_legal",
                                <<self.model.selected_tower, clicked_tower>>,
                                legal, self.model))
    IN  IF legal
        THEN _execute_move(s1, clicked_tower)
        ELSE [s1 EXCEPT !.model = set_notification(@, ILLEGAL_MOVE)]

_handle_second_tower_click(self, clicked_tower) ==
    IF self.model.selected_tower = clicked_tower
    THEN [self EXCEPT !.model = set_selected_tower(@, NoTower)]
    ELSE LET legal == check_move_legal(self.model, self.model.selected_tower,
                                       clicked_tower)
             s1 == Logged(self, Call("check_move_legal",
                                     <<self.model.selected_tower, clicked_tower>>,
                                     legal, self.model))
         IN  IF legal
             THEN _execute_move(s1, clicked_tower)
             ELSE [s1 EXCEPT !.model = set_notification(@, ILLEGAL_MOVE)]

_handle_tower_interaction(self, clicked_tower) ==
    IF self.model.selected_tower = NoTower
    THEN _attempt_tower_select(self, clicked_tower)
    ELSE _handle_second_tower_click([self EXCEPT !.model_updated = TRUE], clicked_tower)

_resolve_gameboard_click(self, cursor_position) ==
    IF self.model.notification # None
    THEN _resolve_notification(self)
    ELSE IF self.model.highlighted_button # None
    THEN _handle_game_button_click(self)
    ELSE _handle_tower_interaction(self, _find_clicked_tower(cursor_position))

\* Mutant: the click is resolved before the highlight is updated.
handle_input_click_first(self, user_input, program_state) ==
    LET s1 == IF user_input.clicked
              THEN IF program_state = MENU THEN _resolve_menu_click(self)
                   ELSE IF program_state = GAME
                   THEN _resolve_gameboard_click(self, user_input.position)
                   ELSE self
              ELSE self
    IN  IF _should_update_highlight(s1, program_state)
        THEN _update_highlight(s1, user_input.position)
        ELSE s1

handle_input(self, user_input, program_state) ==
    LET s1 == IF _should_update_highlight(self, program_state)
              THEN _update_highlight(self, user_input.position)
              ELSE self
    IN  IF user_input.clicked
        THEN IF program_state = MENU THEN _resolve_menu_click(s1)
             ELSE IF program_state = GAME
             THEN _resolve_gameboard_click(s1, user_input.position)
             ELSE s1
        ELSE s1

---------------------------------------------------------------------------
(* controllers/program_loop.py *)

VIRTUAL_SCREEN_SIZE == <<960, 640>>

\* The polled events: whether a QUIT and whether a MOUSEBUTTONDOWN is among them.
EventLists == [quit : BOOLEAN, mousebuttondown : BOOLEAN]

\* Points of the virtual screen the cursor is put on: the centre of every button,
\* the three tower regions and their two boundaries.
CursorPoints ==
    {BUTTON_POSITIONS[f] : f \in ButtonFlag}
        \cup {<<100, 100>>, <<LEFT_TOWER_BOUNDARY, 100>>, <<RIGHT_TOWER_BOUNDARY, 100>>,
              <<700, 100>>}

\* The positions pygame.mouse.get_pos() reports in a window of the given size: for
\* each point of CursorPoints the first window pixel at or after it.
MousePositions(size) ==
    {<<(p[1] * size[1] + VIRTUAL_SCREEN_SIZE[1] - 1) \div VIRTUAL_SCREEN_SIZE[1],
       (p[2] * size[2] + VIRTUAL_SCREEN_SIZE[2] - 1) \div VIRTUAL_SCREEN_SIZE[2]>> :
        p \in CursorPoints}

_check_for_exit_events(event_list) == event_list.quit

\* Mutant: the division rounds up.
process_input_rounds_up(event_list, mouse_pos, current_size) ==
    LET virtual_x == (mouse_pos[1] * VIRTUAL_SCREEN_SIZE[1] + current_size[1] - 1)
                        \div current_size[1]
        virtual_y == (mouse_pos[2] * VIRTUAL_SCREEN_SIZE[2] + current_size[2] - 1)
                        \div current_size[2]
    IN  UserInput(<<virtual_x, virtual_y>>, event_list.mousebuttondown)

process_input(event_list, mouse_pos, current_size) ==
    LET virtual_x == (mouse_pos[1] * VIRTUAL_SCREEN_SIZE[1]) \div current_size[1]
        virtual_y == (mouse_pos[2] * VIRTUAL_SCREEN_SIZE[2]) \div current_size[2]
    IN  UserInput(<<virtual_x, virtual_y>>, event_list.mousebuttondown)

\* The model the controller references.
ActiveModel == IF controller.model = "game_model" THEN game_model ELSE menu_model

\* The controller as its methods see it: self.model is the model itself.
Self ==
    [model |-> ActiveModel,
     model_updated |-> controller.model_updated,
     next_state |-> controller.next_state,
     exit_flag |-> controller.exit_flag,
     asset_package_updated |-> controller.asset_package_updated,
     resolution_updated |-> controller.resolution_updated,
     calls |-> <<>>,
     raised |-> FALSE]

ToggleFlags == {"DIFFICULTY_TOGGLE", "RESOLUTION_TOGGLE", "THEME_TOGGLE"}

ToggleCalls(log) ==
    Cardinality({i \in 1..Len(log) :
                    log[i].op = "button_handlers" /\ log[i].args[1] \in ToggleFlags})

\* What build_asset_container returns: the container, or None when an image could
\* not be loaded.
AssetContainers == {"AssetsContainer", None}

\* build_asset_container(theme): for every theme the call gives the container, or
\* None when get_theme_specific_assets or get_common_assets failed.
build_asset_container(theme) == AssetContainers

\* GameRenderer.__init__
GameRenderer(asset_container) == [assets |-> asset_container]

\* GameRenderer.update_assets: the argument is stored, whatever it is.
update_assets(self, asset_container) == [self EXCEPT !.assets = asset_container]

\* render_menu and render_game read the background image from self.assets first:
\* with None there, AttributeError is raised.
render_raises(self) == self.assets = None

Init ==
    /\ menu_model = MenuModel
    /\ game_model = None
    /\ controller = ProgramController
    /\ current_state = MENU
    /\ running = TRUE
    /\ screen = VIRTUAL_SCREEN_SIZE
    /\ pc = "run_program"
    /\ calls = <<>>
    /\ disc_num = 0
    /\ toggles = 0
    /\ renderer = GameRenderer("AssetsContainer")

\* run_program up to the loop: the first frame is always drawn.
run_program ==
    /\ pc = "run_program"
    /\ controller' = reset_render_flag([controller EXCEPT !.model_updated = TRUE])
    /\ pc' = "handle_user_input"
    /\ UNCHANGED <<renderer, menu_model, game_model, current_state, running, screen, calls,
                   disc_num, toggles>>

\* handle_user_input, and `self.running = ...` of the loop.  With a QUIT among the
\* events the controller is not called.  An exception raised in the controller is
\* caught nowhere and ends the program.
handle_user_input ==
    /\ pc = "handle_user_input"
    /\ \E event_list \in EventLists :
        \/ /\ _check_for_exit_events(event_list)
           /\ running' = FALSE
           /\ pc' = "check_and_update_settings"
           /\ UNCHANGED <<menu_model, game_model, controller, calls, toggles>>
        \/ /\ ~_check_for_exit_events(event_list)
           /\ \E mouse_pos \in MousePositions(screen) :
              \E after \in {handle_input(Self,
                                         process_input(event_list, mouse_pos, screen),
                                         current_state)} :
                 /\ toggles + ToggleCalls(after.calls) <= MaxToggles
                 /\ toggles' = toggles + ToggleCalls(after.calls)
                 /\ controller' = [controller EXCEPT
                        !.model_updated = after.model_updated,
                        !.next_state = after.next_state,
                        !.exit_flag = after.exit_flag,
                        !.asset_package_updated = after.asset_package_updated,
                        !.resolution_updated = after.resolution_updated]
                 /\ IF controller.model = "game_model"
                    THEN game_model' = after.model /\ UNCHANGED menu_model
                    ELSE menu_model' = after.model /\ UNCHANGED game_model
                 /\ calls' = after.calls
                 /\ IF after.raised
                    THEN pc' = "raised" /\ UNCHANGED running
                    ELSE /\ pc' = "check_and_update_settings"
                         /\ running' = ~after.exit_flag
    /\ UNCHANGED <<renderer, current_state, screen, disc_num>>

\* check_and_update_settings: the result of build_asset_container is passed to
\* update_assets untested.
check_and_update_settings ==
    /\ pc = "check_and_update_settings"
    /\ IF controller.asset_package_updated
       THEN \E new_container \in build_asset_container(ActiveModel.settings.theme) :
               renderer' = update_assets(renderer, new_container)
       ELSE UNCHANGED renderer
    /\ screen' = IF controller.resolution_updated
                 THEN ActiveModel.settings.resolution
                 ELSE screen
    /\ controller' = reset_settings_update_flags(controller)
    /\ pc' = "handle_program_state_change"
    /\ UNCHANGED <<menu_model, game_model, current_state, running, calls, disc_num,
                   toggles>>

\* Mutant: the mode changes to GAME but the controller keeps the Menu Model.
handle_program_state_change_keeps_model ==
    /\ pc = "handle_program_state_change"
    /\ IF controller.next_state # None
       THEN /\ current_state' = controller.next_state
            /\ IF controller.next_state = MENU
               THEN /\ controller' = update_state(controller, "menu_model")
                    /\ game_model' = None
                    /\ disc_num' = 0
               ELSE LET active_difficulty == ActiveModel.settings.difficulty
                    IN  /\ game_model' = GameModel(active_difficulty)
                        /\ disc_num' = active_difficulty
                        /\ controller' = update_state(controller, controller.model)
       ELSE UNCHANGED <<current_state, controller, game_model, disc_num>>
    /\ pc' = "update_and_render"
    /\ UNCHANGED <<renderer, menu_model, running, screen, calls, toggles>>

\* Mutant: the Game Model of a session is kept when the session is left and is
\* installed again by the next PLAY click.
handle_program_state_change_resumes_session ==
    /\ pc = "handle_program_state_change"
    /\ IF controller.next_state # None
       THEN /\ current_state' = controller.next_state
            /\ IF controller.next_state = MENU
               THEN /\ controller' = update_state(controller, "menu_model")
                    /\ UNCHANGED <<game_model, disc_num>>
               ELSE LET active_difficulty == ActiveModel.settings.difficulty
                    IN  /\ game_model' = IF disc_num = 0
                                         THEN GameModel(active_difficulty)
                                         ELSE game_model
                        /\ disc_num' = IF disc_num = 0 THEN active_difficulty
                                       ELSE disc_num
                        /\ controller' = update_state(controller, "game_model")
       ELSE UNCHANGED <<current_state, controller, game_model, disc_num>>
    /\ pc' = "update_and_render"
    /\ UNCHANGED <<renderer, menu_model, running, screen, calls, toggles>>

\* Mutant: the session is created with the staged difficulty.
handle_program_state_change_staged_difficulty ==
    /\ pc = "handle_program_state_change"
    /\ IF controller.next_state # None
       THEN /\ current_state' = controller.next_state
            /\ IF controller.next_state = MENU
               THEN /\ controller' = update_state(controller, "menu_model")
                    /\ game_model' = None
                    /\ disc_num' = 0
               ELSE LET active_difficulty == ActiveModel.settings_select_display[2]
                    IN  /\ game_model' = GameModel(active_difficulty)
                        /\ disc_num' = active_difficulty
                        /\ controller' = update_state(controller, "game_model")
       ELSE UNCHANGED <<current_state, controller, game_model, disc_num>>
    /\ pc' = "update_and_render"
    /\ UNCHANGED <<renderer, menu_model, running, screen, calls, toggles>>

\* Leaving the game drops the only reference to its GameModel.
handle_program_state_change ==
    /\ pc = "handle_program_state_change"
    /\ IF controller.next_state # None
       THEN /\ current_state' = controller.next_state
            /\ IF controller.next_state = MENU
               THEN /\ controller' = update_state(controller, "menu_model")
                    /\ game_model' = None
                    /\ disc_num' = 0
               ELSE LET active_difficulty == ActiveModel.settings.difficulty
                    IN  /\ game_model' = GameModel(active_difficulty)
                        /\ disc_num' = active_difficulty
                        /\ controller' = update_state(controller, "game_model")
       ELSE UNCHANGED <<current_state, controller, game_model, disc_num>>
    /\ pc' = "update_and_render"
    /\ UNCHANGED <<renderer, menu_model, running, screen, calls, toggles>>

\* update_and_render, clock.tick and the loop test; pygame.quit() after the loop.
\* The iteration is over: its log of calls is emptied.
update_and_render ==
    /\ pc = "update_and_render"
    /\ IF controller.model_updated /\ render_raises(renderer)
       THEN /\ pc' = "raised"
            /\ UNCHANGED <<controller, calls>>
       ELSE /\ controller' = IF controller.model_updated
                             THEN reset_render_flag(controller)
                             ELSE controller
            /\ pc' = IF running THEN "handle_user_input" ELSE "done"
            /\ calls' = <<>>
    /\ UNCHANGED <<renderer, menu_model, game_model, current_state, running, screen, disc_num,
                   toggles>>

Next ==
    \/ run_program
    \/ handle_user_input
    \/ check_and_update_settings
    \/ handle_program_state_change
    \/ update_and_render

Spec == Init /\ [][Next]_vars

---------------------------------------------------------------------------
(* The program from the call of ProgramLoop(): construction, which may fail,     *)
(* then run_program                                                              *)

\* Nothing is constructed yet: no attribute of the ProgramLoop is set.
InitStartup ==
    /\ menu_model = None
    /\ game_model = None
    /\ controller = None
    /\ current_state = None
    /\ running = None
    /\ screen = None
    /\ pc = "ProgramLoop"
    /\ calls = <<>>
    /\ disc_num = 0
    /\ toggles = 0
    /\ renderer = None

\* ProgramLoop.__init__ up to the test of the asset container.  pygame.init() or
\* display.set_mode may raise pygame.error, and then nothing was assigned;
\* build_asset_container catches its own errors and returns None.
ProgramLoop ==
    /\ pc = "ProgramLoop"
    /\ \E display_ok \in BOOLEAN, asset_container \in AssetContainers :
          IF ~display_ok
          THEN /\ pc' = "except pygame.error"
               /\ UNCHANGED <<menu_model, screen>>
          ELSE /\ screen' = VIRTUAL_SCREEN_SIZE
               /\ menu_model' = MenuModel
               /\ pc' = IF asset_container = None
                        THEN "asset_container is None"
                        ELSE "asset_container"
    /\ UNCHANGED <<renderer, game_model, controller, current_state, running, calls, disc_num,
                   toggles>>

\* Mutant: a failed asset load is passed over and construction goes on.
asset_container_is_None_goes_on ==
    /\ pc = "asset_container is None"
    /\ controller' = ProgramController
    /\ current_state' = MENU
    /\ running' = TRUE
    /\ renderer' = GameRenderer(None)
    /\ pc' = "run_program"
    /\ UNCHANGED <<menu_model, game_model, screen, calls, disc_num, toggles>>

\* `if asset_container is None`: print, pygame.quit(), sys.exit(1).  SystemExit is
\* not a pygame.error, the handler of the try statement does not catch it.
asset_container_is_None ==
    /\ pc = "asset_container is None"
    /\ pc' = "sys.exit(1)"
    /\ UNCHANGED <<renderer, menu_model, game_model, controller, current_state, running, screen,
                   calls, disc_num, toggles>>

\* `except pygame.error`: logger.error, sys.exit(1).
except_pygame_error ==
    /\ pc = "except pygame.error"
    /\ pc' = "sys.exit(1)"
    /\ UNCHANGED <<renderer, menu_model, game_model, controller, current_state, running, screen,
                   calls, disc_num, toggles>>

\* The rest of ProgramLoop.__init__: renderer, controller, mode, clock, running.
ProgramLoop_constructed ==
    /\ pc = "asset_container"
    /\ controller' = ProgramController
    /\ current_state' = MENU
    /\ running' = TRUE
    /\ renderer' = GameRenderer("AssetsContainer")
    /\ pc' = "run_program"
    /\ UNCHANGED <<menu_model, game_model, screen, calls, disc_num, toggles>>

NextStartup ==
    \/ ProgramLoop
    \/ asset_container_is_None
    \/ except_pygame_error
    \/ ProgramLoop_constructed
    \/ run_program
    \/ handle_user_input
    \/ check_and_update_settings
    \/ handle_program_state_change
    \/ update_and_render

SpecStartup == InitStartup /\ [][NextStartup]_vars

---------------------------------------------------------------------------
(* The program from the tick after settings were accepted, for each difficulty,  *)
(* with no toggle button clicked from then on: the menu screens and the play     *)
(* sessions of 3, 4 and 5 discs                                                  *)

\* The loop is about to poll its next input: ACCEPT_SETTINGS was dispatched in an
\* earlier tick with this difficulty staged (and the default theme and resolution),
\* and the toggle clicks of the run have been used.
InitSession ==
    /\ \E d \in {difficulties[i] : i \in 1..Len(difficulties)} :
          menu_model =
              update_menu_state(
                  implement_displayed_settings(
                      [MenuModel EXCEPT !.settings_select_display[2] = d,
                                        !.highlighted_button = "ACCEPT_SETTINGS"]),
                  "MAIN")
    /\ game_model = None
    /\ controller = ProgramController
    /\ current_state = MENU
    /\ running = TRUE
    /\ screen = VIRTUAL_SCREEN_SIZE
    /\ pc = "handle_user_input"
    /\ calls = <<>>
    /\ disc_num = 0
    /\ toggles = MaxToggles
    /\ renderer = GameRenderer("AssetsContainer")

\* The body of the loop of run_program.
NextSession ==
    \/ handle_user_input
    \/ check_and_update_settings
    \/ handle_program_state_change
    \/ update_and_render

SpecSession == InitSession /\ [][NextSession]_vars

---------------------------------------------------------------------------
(* The Menu Model on its own: its settings operations called on the OPTIONS screen *)

\* Bound on the cycle operations called since the staged values last equalled the
\* applied ones.
MaxCycles == 5

\* The Menu Models on the OPTIONS screen with staged values equal to the applied
\* ones, for every theme, resolution and difficulty.
MenuModels ==
    {update_menu_state(
        [MenuModel EXCEPT !.settings = [theme |-> th, resolution |-> r, difficulty |-> d],
                          !.settings_select_display = (0 :> th @@ 1 :> r @@ 2 :> d)],
        "OPTIONS") :
        th \in {MenuTheme[i] : i \in 1..Len(MenuTheme)},
        r \in {resolutions[i] : i \in 1..Len(resolutions)},
        d \in {difficulties[i] : i \in 1..Len(difficulties)}}

\* calls is here the log of the cycle operations called since the staged values
\* last equalled the applied ones.
InitMenu ==
    /\ menu_model \in MenuModels
    /\ game_model = None
    /\ controller = ProgramController
    /\ current_state = MENU
    /\ running = TRUE
    /\ screen = menu_model.settings.resolution
    /\ pc = "menu_model"
    /\ calls = <<>>
    /\ disc_num = 0
    /\ toggles = 0
    /\ renderer = GameRenderer("AssetsContainer")

CycleTheme ==
    /\ pc = "menu_model" /\ Len(calls) < MaxCycles
    /\ menu_model' = cycle_theme_displayed(menu_model)
    /\ calls' = Append(calls, Call("cycle_theme_displayed", <<>>, None, menu_model))
    /\ UNCHANGED <<renderer, game_model, controller, current_state, running, screen, pc, disc_num,
                   toggles>>

CycleResolution ==
    /\ pc = "menu_model" /\ Len(calls) < MaxCycles
    /\ menu_model' = cycle_resolution_displayed(menu_model)
    /\ calls' = Append(calls, Call("cycle_resolution_displayed", <<>>, None, menu_model))
    /\ UNCHANGED <<renderer, game_model, controller, current_state, running, screen, pc, disc_num,
                   toggles>>

CycleDifficulty ==
    /\ pc = "menu_model" /\ Len(calls) < MaxCycles
    /\ menu_model' = cycle_difficulty_displayed(menu_model)
    /\ calls' = Append(calls, Call("cycle_difficulty_displayed", <<>>, None, menu_model))
    /\ UNCHANGED <<renderer, game_model, controller, current_state, running, screen, pc, disc_num,
                   toggles>>

ResetDisplayed ==
    /\ pc = "menu_model"
    /\ menu_model' = reset_displayed_settings(menu_model)
    /\ calls' = <<>>
    /\ UNCHANGED <<renderer, game_model, controller, current_state, running, screen, pc, disc_num,
                   toggles>>

ImplementDisplayed ==
    /\ pc = "menu_model"
    /\ menu_model' = implement_displayed_settings(menu_model)
    /\ calls' = <<>>
    /\ UNCHANGED <<renderer, game_model, controller, current_state, running, screen, pc, disc_num,
                   toggles>>

NextMenu ==
    \/ CycleTheme
    \/ CycleResolution
    \/ CycleDifficulty
    \/ ResetDisplayed
    \/ ImplementDisplayed

SpecMenu == InitMenu /\ [][NextMenu]_vars

---------------------------------------------------------------------------
(* The input path on its own: process_input on the polled events and the mouse   *)
(* position in a window of each supported size, then _find_clicked_tower on the  *)
(* virtual position                                                              *)

\* The event types that matter to the loop, and one that does not.
EventTypes == {"QUIT", "MOUSEMOTION", "MOUSEBUTTONDOWN"}

\* Bound on the number of events polled in one tick.
MaxEvents == 2

\* What pygame.event.get() can return: the lists of up to MaxEvents events.
PolledLists == UNION {[1..n -> EventTypes] : n \in 0..MaxEvents}

\* What the two loops over the polled list find: `for event in event_list: if
\* event.type == ...`.
EventListOf(events) ==
    [quit |-> \E i \in 1..Len(events) : events[i] = "QUIT",
     mousebuttondown |-> \E i \in 1..Len(events) : events[i] = "MOUSEBUTTONDOWN"]

\* The first, the middle and the last pixel of an axis of n pixels.
EdgePixels(n) == {0, n \div 2, n - 1}

\* The positions pygame.mouse.get_pos() reports inside a window of this size: every
\* column at three rows, and every row at three columns.
WindowPositions(size) ==
    {<<mx, my>> : mx \in 0..(size[1] - 1), my \in EdgePixels(size[2])}
        \cup {<<mx, my>> : mx \in EdgePixels(size[1]), my \in 0..(size[2] - 1)}

\* calls is here the log of the input path of the tick.  The window has one of the
\* supported sizes, which is the applied resolution.
InitInput ==
    /\ \E r \in {resolutions[i] : i \in 1..Len(resolutions)} :
          /\ screen = r
          /\ menu_model = [MenuModel EXCEPT !.settings.resolution = r,
                                            !.settings_select_display[1] = r]
    /\ game_model = None
    /\ controller = ProgramController
    /\ current_state = MENU
    /\ running = TRUE
    /\ pc = "process_input"
    /\ calls = <<>>
    /\ disc_num = 0
    /\ toggles = 0
    /\ renderer = GameRenderer("AssetsContainer")

\* handle_user_input: process_input is called when no QUIT is among the events.
ProcessInput ==
    /\ pc = "process_input"
    /\ \E events \in PolledLists, mouse_pos \in WindowPositions(screen) :
          /\ ~_check_for_exit_events(EventListOf(events))
          /\ calls' = <<Call("process_input", <<events, mouse_pos, screen>>,
                             process_input(EventListOf(events), mouse_pos, screen),
                             menu_model)>>
    /\ pc' = "_find_clicked_tower"
    /\ UNCHANGED <<renderer, menu_model, game_model, controller, current_state, running, screen,
                   disc_num, toggles>>

\* _find_clicked_tower on the position process_input returned; the input path of
\* the tick ends here.
FindClickedTower ==
    /\ pc = "_find_clicked_tower"
    /\ calls' = Append(calls, Call("_find_clicked_tower", <<calls[1].result.position>>,
                                   _find_clicked_tower(calls[1].result.position),
                                   menu_model))
    /\ pc' = "done"
    /\ UNCHANGED <<renderer, menu_model, game_model, controller, current_state, running, screen,
                   disc_num, toggles>>

NextInput ==
    \/ ProcessInput
    \/ FindClickedTower

SpecInput == InitInput /\ [][NextInput]_vars

---------------------------------------------------------------------------
(* What the claims are stated in *)

\* A play session is running: the controller's model is the Game Model.
InGame == controller.model = "game_model"

\* The loop is between two ticks: the next step is handle_user_input.
BetweenTicks == pc = "handle_user_input"

\* The virtual cursor positions process_input can hand to the controller now.
VirtualPositions ==
    {process_input([quit |-> FALSE, mousebuttondown |-> TRUE], mp, screen).position :
        mp \in MousePositions(screen)}

\* The controller (as Self) after handle_input with this input in the current state.
AfterInput(position, clicked) ==
    handle_input(Self, UserInput(position, clicked), current_state)

\* The controller (as Self) after the highlight step of handle_input alone.
AfterHighlight(position) ==
    IF _should_update_highlight(Self, current_state)
    THEN _update_highlight(Self, position)
    ELSE Self

\* The discs on a tower, and the number of discs on the board.
DiscsOn(m, t) == {m.towers[t][i] : i \in 1..Len(m.towers[t])}
DiscCount(m) == Len(m.towers[0]) + Len(m.towers[1]) + Len(m.towers[2])

StrictlyDecreasing(tower) ==
    \A i \in 1..(Len(tower) - 1) : tower[i] > tower[i + 1]

\* The board a session of n discs starts with: [n-1, ..., 0] on tower 0.
FreshTowers(n) == [t \in 0..2 |-> IF t = 0 THEN [i \in 1..n |-> n - i] ELSE <<>>]

\* Indices of the logged calls of a method.
CallsOf(op) == {i \in 1..Len(calls) : calls[i].op = op}

\* The board with these three towers.
Towers(t0, t1, t2) == [t \in 0..2 |-> IF t = 0 THEN t0 ELSE IF t = 1 THEN t1 ELSE t2]

\* Whether the rules allow moving the top disc of tower a onto tower b.
MayMove(m, a, b) ==
    /\ Len(m.towers[a]) > 0
    /\ \/ Len(m.towers[b]) = 0
       \/ m.towers[a][Len(m.towers[a])] < m.towers[b][Len(m.towers[b])]

\* The towers after the top disc of tower a of `towers` has gone onto tower b.
TopMoved(towers, a, b) ==
    [t \in 0..2 |->
        IF t = a THEN [i \in 1..(Len(towers[a]) - 1) |-> towers[a][i]]
        ELSE IF t = b THEN towers[b] \o <<towers[a][Len(towers[a])]>>
        ELSE towers[t]]

\* The tower a click at this virtual position is on.
TowerAt(p) == IF p[1] < 320 THEN 0 ELSE IF p[1] > 640 THEN 2 ELSE 1

\* The fields of the menu model record m and the staged fields that differ in n.
ChangedFields(m, n) == {f \in DOMAIN m : f # "settings_select_display" /\ m[f] # n[f]}
ChangedStaged(m, n) ==
    {i \in 0..2 : m.settings_select_display[i] # n.settings_select_display[i]}

\* The button flags dispatched through button_handlers in this tick.
Dispatched == {calls[i].args[1] : i \in CallsOf("button_handlers")}

\* The value k places after v in the ordered list, going round.
Advance(list, v, k) ==
    LET i == CHOOSE j \in 1..Len(list) : list[j] = v
    IN  list[((i - 1 + k) % Len(list)) + 1]

\* The number of logged calls of a method.
Count(op) == Cardinality(CallsOf(op))

---------------------------------------------------------------------------
(* Claims *)

\* C1: in every reachable game state of a session started with N discs (N in
\* {3,4,5}), the three towers together hold exactly the discs 0..N-1, each once,
\* and every tower, bottom to top, is strictly decreasing.
C1_TowerInvariant ==
    InGame =>
        /\ disc_num \in {3, 4, 5}
        /\ DiscCount(game_model) = disc_num
        /\ DiscsOn(game_model, 0) \cup DiscsOn(game_model, 1) \cup DiscsOn(game_model, 2)
              = 0..(disc_num - 1)
        /\ \A t \in 0..2 : StrictlyDecreasing(game_model.towers[t])

\* A 5-disc session in which a move has just been made and the discs are spread over
\* all three towers.
C1_Witness ==
    /\ InGame /\ disc_num = 5
    /\ \A t \in 0..2 : game_model.towers[t] # <<>>
    /\ Len(game_model.towers[2]) >= 2
    /\ CallsOf("move_disc") # {}

C3_MoveOnlyAfterLegalCheck ==
    /\ pc = "raised" => CallsOf("move_disc") = {}
    /\ \A i \in CallsOf("move_disc") :
          /\ i > 1
          /\ calls[i - 1].op = "check_move_legal"
          /\ calls[i - 1].result = TRUE
          /\ calls[i - 1].args = calls[i].args
          /\ calls[i - 1].towers = calls[i].towers
          /\ calls[i].args[1] = calls[i].selected_tower
          /\ calls[i].args[2] # calls[i].args[1]
          /\ calls[i].towers[calls[i].args[1]] # <<>>

\* A tick has called move_disc onto a non-empty tower.
C3_Witness ==
    \E i \in CallsOf("move_disc") : calls[i].towers[calls[i].args[2]] # <<>>

\* C4: with tower s selected, a click on another tower c for which
\* check_move_legal(s, c) is false sets notification to ILLEGAL_MOVE and changes
\* neither the towers nor the selection; while the notification is shown s stays
\* selected, and the click that dismisses it leaves s selected.
C4_IllegalMoveKeepsSelection ==
    (InGame /\ BetweenTicks) =>
        /\ (game_model.notification = None /\ game_model.selected_tower # NoTower) =>
              \A p \in VirtualPositions :
                 \A before \in {AfterHighlight(p).model},
                    after \in {AfterInput(p, TRUE).model} :
                    (/\ before.highlighted_button = None
                     /\ TowerAt(p) # game_model.selected_tower
                     /\ ~MayMove(game_model, game_model.selected_tower, TowerAt(p))) =>
                        /\ after.notification = ILLEGAL_MOVE
                        /\ after.towers = game_model.towers
                        /\ after.selected_tower = game_model.selected_tower
        /\ game_model.notification = ILLEGAL_MOVE =>
              /\ game_model.selected_tower # NoTower
              /\ \A p \in VirtualPositions :
                    /\ AfterInput(p, FALSE).model = game_model
                    /\ AfterInput(p, TRUE).model =
                          [game_model EXCEPT !.notification = None]

\* An illegal move has been attempted in a 5-disc session: the notice is shown, the
\* board is as it was at the check and the source tower is still selected.
C4_Witness ==
    /\ InGame /\ disc_num = 5
    /\ game_model.notification = ILLEGAL_MOVE
    /\ \E i \in CallsOf("check_move_legal") :
          /\ calls[i].result = FALSE
          /\ calls[i].towers = game_model.towers
          /\ calls[i].args[1] = game_model.selected_tower

\* C5: in every reachable game state, notification is VICTORY iff towers 0 and 1
\* are both empty; then tower 2 holds all N discs as [N-1, ..., 0] and no tower is
\* selected.
C5_VictoryIffComplete ==
    InGame =>
        /\ (game_model.notification = VICTORY) <=>
              (game_model.towers[0] = <<>> /\ game_model.towers[1] = <<>>)
        /\ is_complete(game_model) <=>
              (game_model.towers[0] = <<>> /\ game_model.towers[1] = <<>>)
        /\ game_model.notification = VICTORY =>
              /\ game_model.towers[2] = FreshTowers(disc_num)[0]
              /\ game_model.selected_tower = NoTower

\* The 4-disc puzzle has been solved and the loop is waiting for the next input.
C5_Witness ==
    /\ InGame /\ BetweenTicks /\ disc_num = 4
    /\ game_model.notification = VICTORY

\* C6: in GAME mode with no notification and no button highlighted when the click
\* is resolved, a click on a non-empty tower while nothing is selected selects that
\* tower and sets model_updated; a click on a different tower onto which the move is
\* legal moves exactly the top disc of the selected tower there, clears the
\* selection, and sets no notification unless the puzzle is then complete.
C6_SelectThenMove ==
    (InGame /\ BetweenTicks /\ game_model.notification = None) =>
        \A p \in VirtualPositions :
            \A before \in {AfterHighlight(p)}, after \in {AfterInput(p, TRUE)},
               s \in {game_model.selected_tower}, c \in {TowerAt(p)} :
                before.model.highlighted_button = None =>
                  /\ (s = NoTower /\ Len(game_model.towers[c]) > 0) =>
                        /\ after.model = [before.model EXCEPT !.selected_tower = c]
                        /\ after.model_updated
                  /\ (s # NoTower /\ c # s /\ MayMove(game_model, s, c)) =>
                        /\ after.model.towers = TopMoved(game_model.towers, s, c)
                        /\ after.model.selected_tower = NoTower
                        /\ after.model_updated
                        /\ after.model.notification =
                              IF /\ after.model.towers[0] = <<>>
                                 /\ after.model.towers[1] = <<>>
                              THEN VICTORY ELSE None

\* The second click of a select-then-move pair has just been handled: the disc has
\* moved, nothing is selected and no notification is shown.
C6_Witness ==
    /\ InGame /\ pc = "check_and_update_settings"
    /\ \E i \in CallsOf("move_disc") :
          game_model.towers = TopMoved(calls[i].towers, calls[i].args[1], calls[i].args[2])
    /\ game_model.selected_tower = NoTower
    /\ game_model.notification = None
    /\ controller.model_updated

\* C7: while a notification is shown, a click at any cursor position (the two game
\* buttons included) changes neither towers, selection nor highlight: under VICTORY
\* its only effect is next_state = MENU, under ILLEGAL_MOVE its only effects are
\* notification = None and model_updated = true.
C7_NotificationClickFrame ==
    (InGame /\ BetweenTicks /\ game_model.notification # None) =>
        \A p \in VirtualPositions :
            AfterInput(p, TRUE) =
                IF game_model.notification = VICTORY
                THEN [Self EXCEPT !.next_state = MENU]
                ELSE [Self EXCEPT !.model.notification = None, !.model_updated = TRUE]

\* The victory notice has just been clicked away: the return to the menu is
\* requested and the game model is as it was.
C7_Witness ==
    /\ InGame /\ pc = "check_and_update_settings"
    /\ game_model.notification = VICTORY
    /\ game_model.highlighted_button = None
    /\ controller.next_state = MENU
    /\ ~controller.model_updated

\* C8: for a legal pair (from, to) of different towers, move_disc(from, to) takes
\* exactly the top disc of from and puts it on top of to; the third tower, the order
\* of the other discs, the number of discs and the other fields stay as they were.
\* From a fresh 3-disc board the moves 0->1, 0->2, 1->2 give ([2,1],[0],[]),
\* ([2],[0],[1]), ([2],[],[1,0]), which is not complete.
C8_MoveDiscFrame ==
    InGame =>
        /\ \A from \in 0..2, to \in 0..2 :
              (from # to /\ MayMove(game_model, from, to)) =>
                 LET moved == move_disc(game_model, from, to)
                 IN  /\ moved.towers = TopMoved(game_model.towers, from, to)
                     /\ DiscCount(moved) = DiscCount(game_model)
                     /\ moved = [game_model EXCEPT !.towers = moved.towers]
        /\ \A i \in CallsOf("move_disc") :
              game_model.towers =
                  TopMoved(calls[i].towers, calls[i].args[1], calls[i].args[2])
        /\ game_model.towers = Towers(<<2, 1, 0>>, <<>>, <<>>) =>
              LET m1 == move_disc(game_model, 0, 1)
                  m2 == move_disc(m1, 0, 2)
                  m3 == move_disc(m2, 1, 2)
              IN  /\ m1.towers = Towers(<<2, 1>>, <<0>>, <<>>)
                  /\ m2.towers = Towers(<<2>>, <<0>>, <<1>>)
                  /\ m3.towers = Towers(<<2>>, <<>>, <<1, 0>>)
                  /\ ~is_complete(m3)

\* The third move of the 3-disc scenario has just been played through the
\* controller.
C8_Witness ==
    /\ InGame /\ disc_num = 3
    /\ \E i \in CallsOf("move_disc") :
          /\ calls[i].towers = Towers(<<2>>, <<0>>, <<1>>)
          /\ calls[i].args = <<1, 2>>
    /\ game_model.towers = Towers(<<2>>, <<>>, <<1, 0>>)

\* The classic 7-move solution of the 3-disc puzzle.
ScenarioB == <<(<<0, 2>>), (<<0, 1>>), (<<2, 1>>), (<<0, 2>>), (<<1, 0>>), (<<1, 2>>),
               (<<0, 2>>)>>

\* The moves played in order on model m, each after asking check_move_legal: the
\* model reached and whether every move was accepted (play stops at a refusal).
RECURSIVE Play(_, _)
Play(m, moves) ==
    IF moves = <<>> THEN [model |-> m, legal |-> TRUE]
    ELSE IF ~check_move_legal(m, Head(moves)[1], Head(moves)[2])
    THEN [model |-> m, legal |-> FALSE]
    ELSE Play(move_disc(m, Head(moves)[1], Head(moves)[2]), Tail(moves))

\* C9: from a fresh 3-disc game the moves 0->2, 0->1, 2->1, 0->2, 1->0, 1->2, 0->2
\* are each accepted by check_move_legal when made, and end with towers
\* ([],[],[2,1,0]) and is_complete() true.
C9_SevenMoveSolution ==
    (InGame /\ disc_num = 3 /\ game_model.towers = Towers(<<2, 1, 0>>, <<>>, <<>>)) =>
        LET end == Play(game_model, ScenarioB)
        IN  /\ end.legal
            /\ end.model.towers = Towers(<<>>, <<>>, <<2, 1, 0>>)
            /\ is_complete(end.model)

\* The 3-disc puzzle has been solved by play: the last move of the solution, 0->2,
\* has just been made and VICTORY is shown.
C9_Witness ==
    /\ InGame /\ disc_num = 3
    /\ game_model.towers = Towers(<<>>, <<>>, <<2, 1, 0>>)
    /\ game_model.notification = VICTORY
    /\ \E i \in CallsOf("move_disc") :
          calls[i].args = <<0, 2>> /\ calls[i].towers = Towers(<<0>>, <<>>, <<2, 1>>)

\* C10: from any reachable game state reset_board() gives the towers
\* ([N-1, ..., 0], [], []) for the N the session started with and no selected tower,
\* and changes nothing else of the model; the RESET_BOARD click that calls it sets
\* model_updated and requests no mode transition.
C10_ResetBoard ==
    InGame =>
        /\ reset_board(game_model) =
              [game_model EXCEPT !.towers = FreshTowers(disc_num),
                                 !.selected_tower = NoTower]
        /\ (BetweenTicks /\ game_model.notification = None) =>
              \A p \in VirtualPositions :
                 \A before \in {AfterHighlight(p)}, after \in {AfterInput(p, TRUE)} :
                    before.model.highlighted_button = "RESET_BOARD" =>
                        /\ after.model =
                              [before.model EXCEPT !.towers = FreshTowers(disc_num),
                                                   !.selected_tower = NoTower]
                        /\ after.next_state = None
                        /\ after.model_updated
        /\ CallsOf("reset_board") # {} =>
              /\ game_model.towers = FreshTowers(disc_num)
              /\ game_model.selected_tower = NoTower
              /\ game_model.notification = None
              /\ game_model.highlighted_button = "RESET_BOARD"
              /\ controller.next_state = None

\* RESET_BOARD has just been clicked in a 5-disc session with a tower selected and
\* discs on tower 2.
C10_Witness ==
    /\ InGame /\ disc_num = 5
    /\ \E i \in CallsOf("reset_board") :
          /\ calls[i].selected_tower # NoTower
          /\ calls[i].towers[2] # <<>>
    /\ game_model.towers = FreshTowers(5)

\* C11: reset_board() is idempotent: from any game state, calling it twice in a row
\* leaves exactly the same model (towers, selected_tower, notification,
\* highlighted_button) as calling it once.
C11_ResetBoardIdempotent ==
    InGame =>
        \A once \in {reset_board(game_model)} :
            /\ reset_board(once) = once
            /\ \A i \in CallsOf("reset_board") :
                  (calls[i].towers = once.towers /\ calls[i].selected_tower = NoTower) =>
                      game_model = once

\* RESET_BOARD has been clicked on a 4-disc board that the click of the tick before
\* had already reset: the second reset_board found the board reset, with discs having
\* been moved before the first.
C11_Witness ==
    /\ InGame /\ disc_num = 4
    /\ \E i \in CallsOf("reset_board") :
          /\ calls[i].towers = FreshTowers(4)
          /\ calls[i].selected_tower = NoTower
    /\ game_model.towers = FreshTowers(4)
    /\ game_model.highlighted_button = "RESET_BOARD"

\* C12: each of the three cycle operations changes only its own field of
\* settings_select_display and never settings; and over any sequence of menu inputs
\* settings changes only in a tick in which ACCEPT_SETTINGS is dispatched.
C12_SettingsStagingIsolation ==
    /\ [](~InGame =>
            \A m \in {menu_model} :
               /\ ChangedFields(m, cycle_theme_displayed(m)) = {}
               /\ ChangedStaged(m, cycle_theme_displayed(m)) = {0}
               /\ ChangedFields(m, cycle_resolution_displayed(m)) = {}
               /\ ChangedStaged(m, cycle_resolution_displayed(m)) = {1}
               /\ ChangedFields(m, cycle_difficulty_displayed(m)) = {}
               /\ ChangedStaged(m, cycle_difficulty_displayed(m)) = {2})
    /\ [][menu_model'.settings # menu_model.settings =>
            /\ pc = "handle_user_input"
            /\ \E i \in 1..Len(calls') :
                  /\ calls'[i].op = "button_handlers"
                  /\ calls'[i].args = <<"ACCEPT_SETTINGS">>]_vars

\* A toggle button has just been dispatched on the OPTIONS screen after an earlier
\* visit had been accepted: the staged values differ from the applied ones, and the
\* applied difficulty is the 4 accepted before.
C12_Witness ==
    /\ ~InGame /\ pc = "check_and_update_settings"
    /\ Dispatched \cap ToggleFlags # {}
    /\ menu_model.settings.difficulty = 4
    /\ ChangedStaged(menu_model, reset_displayed_settings(menu_model)) # {}

\* C13: each cycle operation advances its staged field to the next value of its
\* list (themes STANDARD, RED, BLUE; resolutions (720,480), (864,576), (960,640),
\* (1080,720), (1296,864); difficulties 3, 4, 5) and wraps after the last; applied as
\* many times as the list is long (3, 5, 3) it returns the field to the start.
C13_CyclesWrap ==
    pc = "menu_model" =>
        \A m \in {menu_model} :
           /\ m.settings_select_display[0] =
                 Advance(<<"STANDARD", "RED", "BLUE">>, m.settings.theme,
                         Count("cycle_theme_displayed"))
           /\ m.settings_select_display[1] =
                 Advance(<<(<<720, 480>>), (<<864, 576>>), (<<960, 640>>), (<<1080, 720>>),
                           (<<1296, 864>>)>>,
                         m.settings.resolution, Count("cycle_resolution_displayed"))
           /\ m.settings_select_display[2] =
                 Advance(<<3, 4, 5>>, m.settings.difficulty,
                         Count("cycle_difficulty_displayed"))
           /\ Count("cycle_theme_displayed") = 3 =>
                 m.settings_select_display[0] = m.settings.theme
           /\ Count("cycle_resolution_displayed") = 5 =>
                 m.settings_select_display[1] = m.settings.resolution
           /\ Count("cycle_difficulty_displayed") = 3 =>
                 m.settings_select_display[2] = m.settings.difficulty
           /\ cycle_theme_displayed(cycle_theme_displayed(cycle_theme_displayed(m))) = m
           /\ cycle_resolution_displayed(cycle_resolution_displayed(
                 cycle_resolution_displayed(cycle_resolution_displayed(
                    cycle_resolution_displayed(m))))) = m
           /\ cycle_difficulty_displayed(cycle_difficulty_displayed(
                 cycle_difficulty_displayed(m))) = m

\* cycle_resolution_displayed has been called five times from the staged resolution
\* (960,640), which is staged again.
C13_Witness ==
    /\ pc = "menu_model"
    /\ Len(calls) = 5 /\ Count("cycle_resolution_displayed") = 5
    /\ menu_model.settings.resolution = <<960, 640>>
    /\ menu_model.settings_select_display[1] = <<960, 640>>

\* The staged values, as the list [theme, resolution, difficulty], that equal these
\* applied settings.
StagedOf(settings) ==
    (0 :> settings.theme @@ 1 :> settings.resolution @@ 2 :> settings.difficulty)

\* C14: immediately after every dispatch of the OPTIONS button current_menu is
\* OPTIONS and the three staged fields equal the applied fields of settings,
\* whatever staged values an earlier, unaccepted visit to the OPTIONS screen left.
C14_EnterOptionsResetsStaged ==
    /\ "OPTIONS" \in Dispatched =>
          /\ menu_model.current_menu = "OPTIONS"
          /\ menu_model.settings_select_display = StagedOf(menu_model.settings)
          /\ \A i \in CallsOf("button_handlers") :
                menu_model.settings = calls[i].settings
    /\ (~InGame /\ BetweenTicks) =>
          \A p \in VirtualPositions :
             \A after \in {AfterInput(p, TRUE)} :
                (\E i \in 1..Len(after.calls) : after.calls[i].args = <<"OPTIONS">>) =>
                    /\ after.model.current_menu = "OPTIONS"
                    /\ after.model.settings = menu_model.settings
                    /\ after.model.settings_select_display =
                          StagedOf(menu_model.settings)

\* OPTIONS has just been dispatched while the staged theme and difficulty left by an
\* unaccepted visit differed from the applied ones: they are equal again.
C14_Witness ==
    /\ pc = "check_and_update_settings"
    /\ \E i \in CallsOf("button_handlers") :
          /\ calls[i].args = <<"OPTIONS">>
          /\ calls[i].settings_select_display[0] # calls[i].settings.theme
          /\ calls[i].settings_select_display[2] # calls[i].settings.difficulty
    /\ menu_model.settings_select_display = StagedOf(menu_model.settings)
    /\ menu_model.current_menu = "OPTIONS"

\* C15: on an ACCEPT_SETTINGS dispatch asset_package_updated becomes true iff the
\* staged theme differs from the applied theme, and resolution_updated iff the staged
\* resolution differs from the applied one (a change of difficulty alone sets
\* neither); in every case the staged values are committed to settings and
\* current_menu becomes MAIN.
C15_AcceptSettings ==
    /\ BetweenTicks =>
          ~controller.asset_package_updated /\ ~controller.resolution_updated
    /\ \A i \in CallsOf("button_handlers") :
          calls[i].args = <<"ACCEPT_SETTINGS">> =>
             \A staged \in {calls[i].settings_select_display},
                applied \in {calls[i].settings} :
                /\ pc = "check_and_update_settings" =>
                      /\ controller.asset_package_updated <=> staged[0] # applied.theme
                      /\ controller.resolution_updated <=>
                            staged[1] # applied.resolution
                /\ menu_model.settings =
                      [theme |-> staged[0], resolution |-> staged[1],
                       difficulty |-> staged[2]]
                /\ menu_model.settings_select_display = staged
                /\ menu_model.current_menu = "MAIN"

\* ACCEPT_SETTINGS has just been dispatched with a staged theme and a staged
\* difficulty that differed from the applied ones and the same resolution: only
\* asset_package_updated is set, and both staged values are now applied.
C15_Witness ==
    /\ pc = "check_and_update_settings"
    /\ \E i \in CallsOf("button_handlers") :
          /\ calls[i].args = <<"ACCEPT_SETTINGS">>
          /\ calls[i].settings_select_display[0] # calls[i].settings.theme
          /\ calls[i].settings_select_display[2] # calls[i].settings.difficulty
          /\ calls[i].settings_select_display[1] = calls[i].settings.resolution
    /\ controller.asset_package_updated /\ ~controller.resolution_updated
    /\ menu_model.settings.theme = "RED" /\ menu_model.settings.difficulty = 4

\* C16: every game session is created with a disc count equal to the applied
\* difficulty at the frame in which PLAY was clicked; a staged but unaccepted
\* difficulty never affects it, and the disc count of a running session never
\* changes, RESET_BOARD included.
C16_SessionDiscCount ==
    /\ [](InGame => DiscCount(game_model) = menu_model.settings.difficulty)
    /\ [][(~InGame /\ InGame') =>
            /\ pc = "handle_program_state_change"
            /\ \E i \in CallsOf("button_handlers") :
                  /\ calls[i].args = <<"PLAY">>
                  /\ game_model'.towers = FreshTowers(calls[i].settings.difficulty)]_vars
    /\ [][(InGame /\ InGame') =>
            /\ DiscCount(game_model') = DiscCount(game_model)
            /\ menu_model'.settings = menu_model.settings]_vars

\* RESET_BOARD has just been clicked in a session of 4 discs, the applied difficulty,
\* while a difficulty of 5 is staged and was never accepted.
C16_Witness ==
    /\ InGame
    /\ menu_model.settings.difficulty = 4
    /\ menu_model.settings_select_display[2] = 5
    /\ CallsOf("reset_board") # {}
    /\ game_model.towers = FreshTowers(4)

\* Whether the cursor position p is inside the hit rectangle of the button.
InRect(flag, p) == collidepoint(ButtonRect(flag), p)

\* The first button of the model's active_buttons, in list order, whose rectangle
\* contains p; None if there is none.
FirstHit(m, p) ==
    LET hit == {i \in 1..Len(m.active_buttons) : InRect(m.active_buttons[i], p)}
    IN  IF hit = {} THEN None
        ELSE m.active_buttons[CHOOSE i \in hit : \A j \in hit : i <= j]

\* The highlight one highlight update leaves with the cursor at p.
ExpectedHighlight(m, p) ==
    IF m.highlighted_button = None THEN FirstHit(m, p)
    ELSE IF InRect(m.highlighted_button, p) THEN m.highlighted_button
    ELSE None

\* A notification is shown in GAME mode.
UnderNotification == current_state = GAME /\ game_model.notification # None

\* C17: the highlight update is skipped in a tick exactly when the mode is GAME and
\* the game model's notification is not None; in such a tick highlighted_button is
\* left as it is whatever the cursor position, and in every other tick (MENU mode, or
\* GAME without a notification) the highlight update runs.
C17_HighlightSuppression ==
    BetweenTicks =>
        /\ _should_update_highlight(Self, current_state) <=> ~UnderNotification
        /\ \A p \in VirtualPositions :
              \A moved \in {AfterInput(p, FALSE)}, clicked \in {AfterInput(p, TRUE)} :
                 IF UnderNotification
                 THEN /\ moved = Self
                      /\ clicked.model.highlighted_button =
                            game_model.highlighted_button
                 ELSE /\ moved.model.highlighted_button =
                            ExpectedHighlight(ActiveModel, p)
                      /\ moved.model_updated <=>
                            ExpectedHighlight(ActiveModel, p) #
                               ActiveModel.highlighted_button

\* A tick has just handled an input without a click while ILLEGAL_MOVE was shown:
\* nothing was called and nothing is to be drawn, though the cursor may have been on
\* RESET_BOARD.
C17_Witness ==
    /\ InGame /\ pc = "check_and_update_settings" /\ running
    /\ game_model.notification = ILLEGAL_MOVE
    /\ calls = <<>>
    /\ ~controller.model_updated
    /\ \E p \in VirtualPositions :
          InRect("RESET_BOARD", p) /\ AfterInput(p, FALSE) = Self

\* C18: one highlight update does exactly one of: (a) a button is highlighted and
\* the cursor is outside its rectangle: the highlight becomes None and model_updated
\* is set, and no other button is highlighted in that tick even if the cursor is
\* inside it; (b) nothing is highlighted: the first button of active_buttons, in list
\* order, whose rectangle contains the cursor becomes highlighted and model_updated
\* is set, or nothing changes if there is none; (c) a button is highlighted and the
\* cursor is inside its rectangle: nothing changes.
C18_UpdateHighlightCases ==
    (BetweenTicks /\ ~UnderNotification) =>
        \A p \in VirtualPositions :
           \A after \in {_update_highlight(Self, p)}, h \in {ActiveModel.highlighted_button} :
              /\ (h # None /\ ~InRect(h, p)) =>
                    after = [Self EXCEPT !.model.highlighted_button = None,
                                         !.model_updated = TRUE]
              /\ (h = None /\ FirstHit(ActiveModel, p) # None) =>
                    after = [Self EXCEPT !.model.highlighted_button =
                                            FirstHit(ActiveModel, p),
                                         !.model_updated = TRUE]
              /\ (h = None /\ FirstHit(ActiveModel, p) = None) => after = Self
              /\ (h # None /\ InRect(h, p)) => after = Self

\* BACK_TO_MAIN is highlighted in a game and the cursor can be put on RESET_BOARD:
\* the update then only clears the highlight.
C18_Witness ==
    /\ InGame /\ BetweenTicks
    /\ game_model.notification = None
    /\ game_model.highlighted_button = "BACK_TO_MAIN"
    /\ game_model.selected_tower # NoTower
    /\ \E p \in VirtualPositions :
          /\ InRect("RESET_BOARD", p)
          /\ _update_highlight(Self, p).model.highlighted_button = None
          /\ _update_highlight(Self, p).model_updated

\* The MAIN or the OPTIONS screen is shown.
OnButtonScreen == current_state = MENU /\ menu_model.current_menu \in {"MAIN", "OPTIONS"}

\* C19: handle_input runs the highlight update before click resolution and resolves
\* a click only when the input carries one: an input without a click can change
\* nothing except highlighted_button and model_updated, and a click in MENU mode on
\* MAIN or OPTIONS with no button highlighted after the highlight step changes
\* nothing at all (menu, settings, staged settings, next_state, exit_flag, flags,
\* model_updated).
C19_HandleInputDispatch ==
    BetweenTicks =>
        \A p \in VirtualPositions :
           \A moved \in {AfterInput(p, FALSE)}, lit \in {AfterHighlight(p)},
              clicked \in {AfterInput(p, TRUE)} :
              /\ moved = [Self EXCEPT
                             !.model.highlighted_button = moved.model.highlighted_button,
                             !.model_updated = moved.model_updated]
              /\ moved = lit
              /\ (OnButtonScreen /\ lit.model.highlighted_button = None) =>
                    clicked = lit
              /\ (OnButtonScreen /\ lit.model.highlighted_button # None) =>
                    /\ clicked.model_updated
                    /\ \E i \in 1..Len(clicked.calls) :
                          clicked.calls[i].args = <<lit.model.highlighted_button>>

\* THEME_TOGGLE is highlighted on the OPTIONS screen and the cursor can jump onto
\* another button: the click made there only clears the highlight, which the
\* highlight step does.
C19_Witness ==
    /\ BetweenTicks /\ current_state = MENU
    /\ menu_model.current_menu = "OPTIONS"
    /\ menu_model.highlighted_button = "THEME_TOGGLE"
    /\ \E p \in VirtualPositions :
          /\ InRect("ACCEPT_SETTINGS", p)
          /\ AfterInput(p, TRUE) = [Self EXCEPT !.model.highlighted_button = None,
                                                !.model_updated = TRUE]

\* C20: while current_menu is TUTORIAL every click, at any cursor position and
\* whatever button is highlighted, advances tutorial_slide by one and sets
\* model_updated; from slide 0 the first seven clicks leave the menu in TUTORIAL with
\* slides 1..7 (tutorial_step returns false) and the eighth (tutorial_step returns
\* true) resets the slide to 0 and switches current_menu to MAIN.
C20_TutorialClicks ==
    (~InGame /\ BetweenTicks) =>
        /\ menu_model.current_menu # "TUTORIAL" => menu_model.tutorial_slide = 0
        /\ menu_model.current_menu = "TUTORIAL" =>
              /\ menu_model.tutorial_slide \in 0..7
              /\ tutorial_step(menu_model).result <=> menu_model.tutorial_slide = 7
              /\ \A p \in VirtualPositions :
                    \A lit \in {AfterHighlight(p)}, clicked \in {AfterInput(p, TRUE)} :
                       /\ clicked = [lit EXCEPT !.model = clicked.model,
                                                !.model_updated = TRUE]
                       /\ clicked.model =
                             IF menu_model.tutorial_slide < 7
                             THEN [lit.model EXCEPT
                                     !.tutorial_slide = menu_model.tutorial_slide + 1]
                             ELSE [lit.model EXCEPT
                                     !.tutorial_slide = 0,
                                     !.current_menu = "MAIN",
                                     !.active_buttons = <<"PLAY", "OPTIONS", "EXIT",
                                                          "TUTORIAL", "CREDITS">>]

\* Seven clicks have been made on the tutorial, which shows slide 7 with the
\* TUTORIAL button still highlighted: the eighth click, wherever it is made, gives
\* the MAIN screen and slide 0.
C20_Witness ==
    /\ ~InGame /\ BetweenTicks
    /\ menu_model.current_menu = "TUTORIAL"
    /\ menu_model.tutorial_slide = 7
    /\ menu_model.highlighted_button = "TUTORIAL"
    /\ \A p \in VirtualPositions :
          /\ AfterInput(p, TRUE).model.current_menu = "MAIN"
          /\ AfterInput(p, TRUE).model.tutorial_slide = 0

\* The model that goes with a mode.
ModelOf(state) == IF state = GAME THEN "game_model" ELSE "menu_model"

\* C21: handle_input never changes which model the controller holds or which mode
\* is active, it only sets next_state.  In the loop iteration in which next_state
\* was set the Program Loop sets current_state to it, installs the matching model,
\* clears next_state and sets model_updated; when next_state is None the loop
\* changes neither the mode nor the model.  At the end of every loop iteration
\* next_state is None and asset_package_updated and resolution_updated are false.
C21_LoopOwnsTransitions ==
    /\ [](/\ controller.model = ModelOf(current_state)
          /\ controller.next_state # None =>
                pc \in {"check_and_update_settings", "handle_program_state_change"}
          /\ (controller.asset_package_updated \/ controller.resolution_updated) =>
                pc = "check_and_update_settings")
    /\ [][pc # "handle_program_state_change" =>
            /\ controller'.model = controller.model
            /\ current_state' = current_state]_vars
    /\ [][pc = "handle_program_state_change" =>
            IF controller.next_state # None
            THEN /\ current_state' = controller.next_state
                 /\ controller'.model = ModelOf(controller.next_state)
                 /\ controller'.next_state = None
                 /\ controller'.model_updated
            ELSE /\ current_state' = current_state
                 /\ controller' = controller
                 /\ UNCHANGED <<menu_model, game_model>>]_vars

\* The loop has just carried out the transition a PLAY click of this iteration
\* requested: the mode is GAME, the Game Model is installed, the request is cleared
\* and the frame is to be drawn.
C21_Witness ==
    /\ pc = "update_and_render"
    /\ "PLAY" \in Dispatched
    /\ current_state = GAME /\ controller.model = "game_model"
    /\ controller.next_state = None
    /\ controller.model_updated

\* C22: across any number of play sessions there is one Menu Model: every return
\* from GAME to MENU (BACK_TO_MAIN click or VICTORY dismissal) reinstalls that same
\* model with current_menu MAIN and with the settings it had when PLAY was clicked;
\* every PLAY click installs a new Game Model in the initial state (all discs on
\* tower 0, no selection, no notification, no highlight) that carries nothing over
\* from an earlier session.
C22_OneMenuModelFreshGames ==
    /\ [](InGame =>
            /\ menu_model.current_menu = "MAIN"
            /\ menu_model.highlighted_button = "PLAY")
    /\ [][InGame => menu_model' = menu_model]_vars
    /\ [][(InGame /\ ~InGame') =>
            /\ pc = "handle_program_state_change"
            /\ current_state' = MENU
            /\ controller'.model = "menu_model"
            /\ \/ game_model.highlighted_button = "BACK_TO_MAIN"
               \/ game_model.notification = VICTORY]_vars
    /\ [][(~InGame /\ InGame') =>
            /\ "PLAY" \in Dispatched
            /\ game_model' =
                  [towers |-> FreshTowers(menu_model.settings.difficulty),
                   active_buttons |-> <<"RESET_BOARD", "BACK_TO_MAIN">>,
                   highlighted_button |-> None,
                   selected_tower |-> NoTower,
                   notification |-> None]]_vars

\* A PLAY click has just installed the Game Model of a 5-disc session, in its
\* initial state; the Menu Model is on MAIN with the difficulty accepted before.
C22_Witness ==
    /\ pc = "update_and_render"
    /\ "PLAY" \in Dispatched
    /\ InGame
    /\ game_model = GameModel(5)
    /\ menu_model.current_menu = "MAIN"
    /\ menu_model.settings.difficulty = 5

\* C23: the main loop ends after the iteration in which a window-close (QUIT)
\* event was polled or the EXIT button was clicked, and handles no input afterwards:
\* on a QUIT event handle_input is not called at all in that iteration; on an EXIT
\* click exit_flag is set and, once set, is never cleared; with neither, the loop
\* keeps running.
C23_LoopTermination ==
    /\ [](/\ pc \in {"run_program", "handle_user_input"} => running
          /\ pc = "done" => ~running
          /\ controller.exit_flag => ~running /\ pc # "handle_user_input")
    /\ [][controller.exit_flag => controller'.exit_flag]_vars
    /\ [][(pc = "handle_user_input" /\ ~running') =>
            \/ /\ controller'.exit_flag
               /\ "EXIT" \in {calls'[i].args[1] : i \in 1..Len(calls')}
            \/ /\ calls' = <<>>
               /\ UNCHANGED <<controller, menu_model, game_model>>]_vars
    /\ [][(pc = "handle_user_input" /\ running') =>
            /\ ~controller'.exit_flag
            /\ "EXIT" \notin {calls'[i].args[1] : i \in CallsOf("button_handlers")'}]_vars
    /\ [][pc = "update_and_render" =>
            pc' = IF running THEN "handle_user_input" ELSE "done"]_vars
    /\ [][pc # "handle_user_input" => running' = running]_vars

---------------------------------------------------------------------------
\* C24: when display initialisation fails (pygame.error) or build_asset_container
\* returns None, the construction of ProgramLoop ends the process with exit status 1:
\* the next step is sys.exit(1); up to and at the exit no controller exists, no mode
\* and no running flag are set and nothing was handled; after the exit the process
\* takes no step, so construction is not tried again and the loop is never entered;
\* the loop is entered only from a construction that got its display and its assets.
C24_FatalStartupErrors ==
    /\ [](pc \in {"except pygame.error", "asset_container is None", "sys.exit(1)"} =>
            /\ controller = None
            /\ current_state = None
            /\ running = None
            /\ game_model = None
            /\ calls = <<>>)
    /\ [](pc = "except pygame.error" => screen = None /\ menu_model = None)
    /\ [][(pc = "except pygame.error" \/ pc = "asset_container is None") =>
            pc' = "sys.exit(1)"]_pc
    /\ [][pc # "sys.exit(1)"]_pc
    /\ [][pc' # "ProgramLoop"]_pc
    /\ [][pc' = "run_program" => pc = "asset_container"]_pc
    /\ [][pc' = "handle_user_input" => pc \in {"run_program", "update_and_render"}]_pc

\* The asset load failed after the display was set: the process has exited with
\* status 1, with a Menu Model and no controller.
C24_Witness ==
    /\ pc = "sys.exit(1)"
    /\ VIRTUAL_SCREEN_SIZE = screen
    /\ controller = None
    /\ running = None

---------------------------------------------------------------------------
\* The button list of each screen, as the claim gives it.
ScreenButtons ==
    IF InGame THEN <<"RESET_BOARD", "BACK_TO_MAIN">>
    ELSE CASE menu_model.current_menu = "MAIN" ->
                <<"PLAY", "OPTIONS", "EXIT", "TUTORIAL", "CREDITS">>
           [] menu_model.current_menu = "OPTIONS" ->
                <<"DIFFICULTY_TOGGLE", "RESOLUTION_TOGGLE", "THEME_TOGGLE",
                  "ACCEPT_SETTINGS", "BACK_TO_MAIN">>
           [] OTHER -> <<>>

\* The rectangle of the given size centred at the table position of the flag: 200x80
\* is 100 left and 40 up of the centre, 75x75 is 37 left and 37 up (pygame rounds
\* the half down).
CentredRect(flag) ==
    IF flag \in {"RESET_BOARD", "BACK_TO_MAIN"}
    THEN [left |-> BUTTON_POSITIONS[flag][1] - 37, top |-> BUTTON_POSITIONS[flag][2] - 37,
          width |-> 75, height |-> 75]
    ELSE [left |-> BUTTON_POSITIONS[flag][1] - 100, top |-> BUTTON_POSITIONS[flag][2] - 40,
          width |-> 200, height |-> 80]

\* No point lies in both rectangles: one ends before the other begins, across or down.
Disjoint(r1, r2) ==
    \/ r1.left + r1.width <= r2.left
    \/ r2.left + r2.width <= r1.left
    \/ r1.top + r1.height <= r2.top
    \/ r2.top + r2.height <= r1.top

\* C25: in every reachable state the active buttons of the screen are the screen's
\* static list, each hit rectangle is the one centred at the table position with
\* size 200x80 (75x75 for RESET_BOARD and BACK_TO_MAIN), the rectangles of two
\* different buttons of the list are disjoint, and no cursor position the controller
\* can receive lies inside two active buttons.
C25_ButtonsDisjoint ==
    \A buttons \in {ActiveModel.active_buttons} :
        /\ buttons = ScreenButtons
        /\ \A i \in 1..Len(buttons) : ButtonRect(buttons[i]) = CentredRect(buttons[i])
        /\ \A i, j \in 1..Len(buttons) :
              i # j => Disjoint(ButtonRect(buttons[i]), ButtonRect(buttons[j]))
        /\ \A p \in VirtualPositions :
              Cardinality({i \in 1..Len(buttons) : InRect(buttons[i], p)}) <= 1

\* The OPTIONS screen with its five buttons, the cursor able to be on one of them.
C25_Witness ==
    /\ BetweenTicks
    /\ ~InGame
    /\ menu_model.current_menu = "OPTIONS"
    /\ Len(menu_model.active_buttons) = 5
    /\ \E p \in VirtualPositions :
          Cardinality({i \in 1..5 : InRect(menu_model.active_buttons[i], p)}) = 1

---------------------------------------------------------------------------
\* The flags of a button list.
FlagsOf(buttons) == {buttons[i] : i \in 1..Len(buttons)}

\* C26: in every reachable menu state active_buttons is the static list of
\* current_menu and highlighted_button, when not None, is one of them; no button is
\* highlighted while current_menu is TUTORIAL or CREDITS; and a click on MAIN or
\* OPTIONS dispatches no button outside the active buttons of that screen.
C26_HighlightIsActiveButton ==
    current_state = MENU =>
        /\ menu_model.active_buttons = ScreenButtons
        /\ menu_model.highlighted_button # None =>
              menu_model.highlighted_button \in FlagsOf(menu_model.active_buttons)
        /\ menu_model.current_menu \in {"TUTORIAL", "CREDITS"} =>
              menu_model.highlighted_button = None
        /\ (BetweenTicks /\ OnButtonScreen) =>
              \A p \in VirtualPositions : \A after \in {AfterInput(p, TRUE)} :
                 \A i \in 1..Len(after.calls) :
                    after.calls[i].op = "button_handlers" =>
                       after.calls[i].args[1] \in FlagsOf(menu_model.active_buttons)

---------------------------------------------------------------------------
\* C27: in GAME mode with no notification, whatever is highlighted before the tick,
\* a click with the cursor inside the rectangle of RESET_BOARD or BACK_TO_MAIN is
\* resolved as that button's action: the button is highlighted, the frame is marked
\* for drawing, BACK_TO_MAIN requests the MENU mode and changes nothing else,
\* RESET_BOARD leaves the initial board of the session and requests nothing; no
\* legality check is made and no disc is moved.
C27_ButtonClickNeverTowerClick ==
    (BetweenTicks /\ current_state = GAME /\ game_model.notification = None) =>
        \A p \in VirtualPositions : \A f \in {"RESET_BOARD", "BACK_TO_MAIN"} :
            InRect(f, p) =>
                \A after \in {AfterInput(p, TRUE)} :
                    /\ \A i \in 1..Len(after.calls) : after.calls[i].op = "reset_board"
                    /\ f = "BACK_TO_MAIN" =>
                          after = [Self EXCEPT !.model.highlighted_button = f,
                                               !.model_updated = TRUE,
                                               !.next_state = MENU]
                    /\ f = "RESET_BOARD" =>
                          /\ after.model =
                                [GameModel(disc_num) EXCEPT !.highlighted_button = f]
                          /\ after.model_updated
                          /\ after.next_state = None

---------------------------------------------------------------------------
\* C28: staged edits abandoned with BACK_TO_MAIN are never committed.  settings
\* changes only in a tick that starts on the OPTIONS screen and dispatches
\* ACCEPT_SETTINGS, and then to the values staged at that tick's start; every entry
\* to OPTIONS from another screen leaves settings as it is and makes the staged
\* values equal to it; the staged values change otherwise only by a toggle button
\* dispatched on OPTIONS; and on every other menu screen no input, clicked or not,
\* at any cursor position, changes settings.
C28_AbandonedEditsNeverCommitted ==
    /\ [][menu_model'.settings # menu_model.settings =>
            /\ menu_model.current_menu = "OPTIONS"
            /\ \E i \in 1..Len(calls') : calls'[i].args = <<"ACCEPT_SETTINGS">>
            /\ StagedOf(menu_model'.settings) = menu_model.settings_select_display]_vars
    /\ [][(menu_model'.current_menu = "OPTIONS" /\ menu_model.current_menu # "OPTIONS") =>
            /\ menu_model'.settings = menu_model.settings
            /\ menu_model'.settings_select_display = StagedOf(menu_model.settings)]_vars
    /\ [][menu_model'.settings_select_display # menu_model.settings_select_display =>
            /\ menu_model'.current_menu = "OPTIONS"
            /\ menu_model.current_menu = "OPTIONS" =>
                  \E i \in 1..Len(calls') :
                     /\ calls'[i].op = "button_handlers"
                     /\ calls'[i].args[1] \in ToggleFlags]_vars
    /\ []((BetweenTicks /\ ~InGame /\ menu_model.current_menu # "OPTIONS") =>
            \A p \in VirtualPositions : \A clicked \in BOOLEAN :
               AfterInput(p, clicked).model.settings = menu_model.settings)

\* BACK_TO_MAIN has just been dispatched on OPTIONS with staged values that differ
\* from the applied ones: the screen is MAIN, the edits are still staged and settings
\* is as the dispatch found it.
C28_Witness ==
    /\ pc = "check_and_update_settings"
    /\ ~InGame
    /\ "BACK_TO_MAIN" \in Dispatched
    /\ menu_model.current_menu = "MAIN"
    /\ menu_model.settings_select_display # StagedOf(menu_model.settings)
    /\ \A i \in CallsOf("button_handlers") : calls[i].settings = menu_model.settings

---------------------------------------------------------------------------
\* C29: in every reachable game state, if selected_tower is not None then it is one
\* of the towers 0..2 and that tower is not empty; and so it is after every input
\* the controller can receive next.
C29_SelectedTowerNonEmpty ==
    InGame =>
        /\ game_model.selected_tower # NoTower =>
              /\ game_model.selected_tower \in 0..2
              /\ game_model.towers[game_model.selected_tower] # <<>>
        /\ BetweenTicks =>
              \A p \in VirtualPositions : \A m \in {AfterInput(p, TRUE).model} :
                 m.selected_tower # NoTower => m.towers[m.selected_tower] # <<>>

\* A tower holding a single disc is selected while the other discs are elsewhere,
\* after an illegal move was refused.
C29_Witness ==
    /\ InGame
    /\ game_model.selected_tower # NoTower
    /\ Len(game_model.towers[game_model.selected_tower]) = 1
    /\ game_model.notification = ILLEGAL_MOVE

---------------------------------------------------------------------------
\* C30: in every reachable game state a notification that is not None goes with a
\* highlighted_button that is None.  A click raises a notification only in a tick
\* whose highlight step leaves no button highlighted, and while a notification is
\* shown no input, clicked or not, at any cursor position, highlights a button.
C30_NoHighlightUnderNotification ==
    InGame =>
        /\ game_model.notification # None => game_model.highlighted_button = None
        /\ (BetweenTicks /\ game_model.notification # None) =>
              \A p \in VirtualPositions : \A clicked \in BOOLEAN :
                 AfterInput(p, clicked).model.highlighted_button = None
        /\ (BetweenTicks /\ game_model.notification = None) =>
              \A p \in VirtualPositions : \A after \in {AfterInput(p, TRUE)} :
                 after.model.notification # None =>
                    /\ AfterHighlight(p).model.highlighted_button = None
                    /\ after.model.highlighted_button = None

\* VICTORY is shown between two ticks and the cursor can be put on RESET_BOARD: the
\* button is not highlighted by it.
C30_Witness ==
    /\ InGame /\ BetweenTicks
    /\ game_model.notification = VICTORY
    /\ game_model.highlighted_button = None
    /\ \E p \in VirtualPositions :
          /\ InRect("RESET_BOARD", p)
          /\ AfterInput(p, FALSE).model.highlighted_button = None

---------------------------------------------------------------------------
\* C31: with no tower selected and no notification, a click that is resolved with no
\* button highlighted on an empty tower changes nothing: the controller and the model
\* after the tick are what the highlight step alone leaves (selected_tower None, the
\* towers and the notification as before, model_updated not set by the click, no
\* model method called); if no button was highlighted before the tick either, the
\* tick changes nothing at all.
C31_EmptyTowerClickNoOp ==
    (InGame /\ BetweenTicks /\ game_model.notification = None
        /\ game_model.selected_tower = NoTower) =>
        \A p \in VirtualPositions :
            \A before \in {AfterHighlight(p)}, after \in {AfterInput(p, TRUE)} :
                (/\ before.model.highlighted_button = None
                 /\ game_model.towers[TowerAt(p)] = <<>>) =>
                    /\ after = before
                    /\ after.model.selected_tower = NoTower
                    /\ after.model.towers = game_model.towers
                    /\ after.model.notification = None
                    /\ after.calls = <<>>
                    /\ game_model.highlighted_button = None =>
                          after = Self /\ ~after.model_updated

\* Nothing is selected or highlighted, tower 1 is empty while discs are on towers 0
\* and 2, and the cursor can click on tower 1.
C31_Witness ==
    /\ InGame /\ BetweenTicks
    /\ game_model.notification = None
    /\ game_model.selected_tower = NoTower
    /\ game_model.highlighted_button = None
    /\ game_model.towers[1] = <<>>
    /\ game_model.towers[2] # <<>>
    /\ \E p \in VirtualPositions :
          /\ TowerAt(p) = 1
          /\ AfterHighlight(p).model.highlighted_button = None
          /\ AfterInput(p, TRUE) = Self

\* C32: with tower s selected and no notification, a click that is resolved with no
\* button highlighted on tower s itself sets selected_tower to None and
\* model_updated to true, calls neither check_move_legal nor move_disc, and leaves
\* the towers, the notification and every other field as they were.
C32_ClickSelectedTowerDeselects ==
    (InGame /\ BetweenTicks /\ game_model.notification = None
        /\ game_model.selected_tower # NoTower) =>
        \A p \in VirtualPositions :
            \A before \in {AfterHighlight(p)}, after \in {AfterInput(p, TRUE)} :
                (/\ before.model.highlighted_button = None
                 /\ TowerAt(p) = game_model.selected_tower) =>
                    /\ after = [before EXCEPT !.model.selected_tower = NoTower,
                                              !.model_updated = TRUE]
                    /\ after.model.towers = game_model.towers
                    /\ after.model.notification = None
                    /\ after.calls = <<>>

\* Tower 1 is selected in a 4-disc session with discs on all three towers, and the
\* cursor can click on it: the click deselects it and calls no method.
C32_Witness ==
    /\ InGame /\ BetweenTicks
    /\ disc_num = 4
    /\ game_model.selected_tower = 1
    /\ game_model.notification = None
    /\ \A t \in 0..2 : game_model.towers[t] # <<>>
    /\ \E p \in VirtualPositions :
          /\ TowerAt(p) = 1
          /\ AfterHighlight(p).model.highlighted_button = None
          /\ AfterInput(p, TRUE).model.selected_tower = NoTower
          /\ AfterInput(p, TRUE).model_updated
          /\ AfterInput(p, TRUE).calls = <<>>

---------------------------------------------------------------------------
\* C33: the clicked tower depends only on the x coordinate of the position and is
\* defined for every position of the virtual screen: x < 320 gives tower 0, x > 640
\* gives tower 2, every x from 320 to 640, both included, gives tower 1, at every y.
C33_FindClickedTower ==
    \A i \in CallsOf("_find_clicked_tower") :
        \A x \in {calls[i].args[1][1]}, tower \in {calls[i].result} :
            /\ tower \in 0..2
            /\ x < 320 => tower = 0
            /\ x > 640 => tower = 2
            /\ (320 <= x /\ x <= 640) => tower = 1

\* The position on the right boundary at the bottom row was looked up: tower 1.
C33_Witness ==
    \E i \in CallsOf("_find_clicked_tower") :
        /\ calls[i].args[1] = <<640, 639>>
        /\ calls[i].result = 1

---------------------------------------------------------------------------
\* C39: for each of the five supported window sizes (w, h) and every mouse position
\* (mx, my) inside the window, process_input yields the virtual position
\* (mx*960 // w, my*640 // h), which lies in 0..959 x 0..639; at window size 960x640
\* the position is the mouse position itself; and clicked is true iff at least one
\* MOUSEBUTTONDOWN event is in the polled list.
C39_ProcessInput ==
    \A i \in CallsOf("process_input") :
        \A events \in {calls[i].args[1]}, mouse \in {calls[i].args[2]},
           size \in {calls[i].args[3]}, out \in {calls[i].result} :
            /\ size \in {<<720, 480>>, <<864, 576>>, <<960, 640>>, <<1080, 720>>,
                         <<1296, 864>>}
            /\ out.position = <<(mouse[1] * 960) \div size[1],
                                (mouse[2] * 640) \div size[2]>>
            /\ out.position[1] \in 0..959
            /\ out.position[2] \in 0..639
            /\ size = <<960, 640>> => out.position = mouse
            /\ out.clicked <=> \E k \in 1..Len(events) : events[k] = "MOUSEBUTTONDOWN"

\* The last pixel of the largest window, with a click after a mouse motion: the
\* virtual position is inside the virtual screen and the click is seen.
C39_Witness ==
    \E i \in CallsOf("process_input") :
        /\ calls[i].args = <<<<"MOUSEMOTION", "MOUSEBUTTONDOWN">>, <<1295, 863>>,
                             <<1296, 864>>>>
        /\ calls[i].result = UserInput(<<959, 639>>, TRUE)

---------------------------------------------------------------------------
\* C34: in every reachable state tutorial_slide is in 0..7 and is 0 whenever
\* current_menu is not TUTORIAL; the TUTORIAL screen is entered only at slide 0 (by
\* the dispatch of the TUTORIAL button) and is left only from slide 7, to MAIN.
C34_TutorialSlideRange ==
    /\ [](/\ menu_model.tutorial_slide \in 0..7
          /\ menu_model.total_tutorial_slides = 8
          /\ menu_model.current_menu # "TUTORIAL" => menu_model.tutorial_slide = 0)
    /\ [][(menu_model.current_menu # "TUTORIAL"
              /\ menu_model'.current_menu = "TUTORIAL") =>
            /\ menu_model'.tutorial_slide = 0
            /\ \E i \in 1..Len(calls') : calls'[i].args = <<"TUTORIAL">>]_vars
    /\ [][(menu_model.current_menu = "TUTORIAL"
              /\ menu_model'.current_menu # "TUTORIAL") =>
            /\ menu_model.tutorial_slide = 7
            /\ menu_model'.current_menu = "MAIN"
            /\ menu_model'.tutorial_slide = 0]_vars
    /\ [][(menu_model.current_menu = "TUTORIAL"
              /\ menu_model'.tutorial_slide # menu_model.tutorial_slide) =>
            menu_model'.tutorial_slide = (menu_model.tutorial_slide + 1) % 8]_vars

\* The last slide is shown with no button highlighted: a click leaves the tutorial
\* at slide 0, an input without a click leaves it at slide 7.
C34_Witness ==
    /\ ~InGame /\ BetweenTicks
    /\ menu_model.current_menu = "TUTORIAL"
    /\ menu_model.tutorial_slide = 7
    /\ menu_model.highlighted_button = None
    /\ \E p \in VirtualPositions :
          /\ AfterInput(p, TRUE).model.current_menu = "MAIN"
          /\ AfterInput(p, TRUE).model.tutorial_slide = 0
          /\ AfterInput(p, FALSE).model.tutorial_slide = 7

---------------------------------------------------------------------------
\* C35: at the end of every iteration of the loop model_updated is false and the
\* frame last drawn shows the active model as it is.  update_and_render draws the
\* controller's model, for the current mode, exactly when model_updated is set, and
\* clears the flag; so the statement is: the first frame is drawn before the loop;
\* every handle_user_input step that changes any field of the active model sets
\* model_updated; check_and_update_settings changes neither; a
\* handle_program_state_change step that swaps the mode or the model sets
\* model_updated and otherwise changes neither; and update_and_render leaves the
\* model and the mode as they are and, when the iteration comes to its end, the flag
\* false.
C35_NoChangeLeftUndrawn ==
    /\ [](pc = "run_program" => ActiveModel = MenuModel /\ current_state = MENU)
    /\ [](pc \in {"handle_user_input", "done"} => ~controller.model_updated)
    /\ [][pc = "handle_user_input" =>
            /\ controller'.model = controller.model
            /\ current_state' = current_state
            /\ ActiveModel' # ActiveModel => controller'.model_updated]_vars
    /\ [][pc = "check_and_update_settings" =>
            /\ controller'.model = controller.model
            /\ current_state' = current_state
            /\ ActiveModel' = ActiveModel
            /\ controller'.model_updated = controller.model_updated]_vars
    /\ [][pc = "handle_program_state_change" =>
            IF controller'.model # controller.model \/ current_state' # current_state
            THEN controller'.model_updated
            ELSE /\ ActiveModel' = ActiveModel
                 /\ controller'.model_updated = controller.model_updated]_vars
    /\ [][(pc = "run_program" \/ pc = "update_and_render") =>
            /\ controller'.model = controller.model
            /\ current_state' = current_state
            /\ ActiveModel' = ActiveModel
            /\ pc' # "raised" => ~controller'.model_updated]_vars

\* The winning move was made in this tick and the session has six moves behind it:
\* the frame with the notification is about to be drawn.
C35_Witness ==
    /\ pc = "update_and_render"
    /\ InGame
    /\ controller.model_updated
    /\ Count("move_disc") = 1
    /\ game_model.notification = VICTORY

---------------------------------------------------------------------------
\* The option lists, as the claim gives them.
ListedThemes == {"STANDARD", "RED", "BLUE"}
ListedResolutions == {<<720, 480>>, <<864, 576>>, <<960, 640>>, <<1080, 720>>,
                      <<1296, 864>>}
ListedDifficulties == {3, 4, 5}

\* Every applied and staged value of the Menu Model is in its list.
InLists(m) ==
    /\ m.settings.theme \in ListedThemes
    /\ m.settings_select_display[0] \in ListedThemes
    /\ m.settings.resolution \in ListedResolutions
    /\ m.settings_select_display[1] \in ListedResolutions
    /\ m.settings.difficulty \in ListedDifficulties
    /\ m.settings_select_display[2] \in ListedDifficulties

\* C36: in every reachable menu state the applied and the staged theme, resolution
\* and difficulty are members of their lists, and so the lookup in each cycle
\* operation finds its value and yields a member again.  The model as constructed is
\* one such state; and from a model with any applied values and any staged values of
\* the lists, every settings operation gives such a model.
C36_SettingsInLists ==
    /\ InLists(MenuModel)
    /\ InLists(menu_model)
    /\ InLists(cycle_theme_displayed(menu_model))
    /\ InLists(cycle_resolution_displayed(menu_model))
    /\ InLists(cycle_difficulty_displayed(menu_model))
    /\ InLists(reset_displayed_settings(menu_model))
    /\ InLists(implement_displayed_settings(menu_model))
    /\ calls = <<>> =>
          \A th \in ListedThemes, r \in ListedResolutions, d \in ListedDifficulties :
             \A m \in {[menu_model EXCEPT
                          !.settings_select_display = (0 :> th @@ 1 :> r @@ 2 :> d)]} :
                /\ InLists(cycle_theme_displayed(m))
                /\ InLists(cycle_resolution_displayed(m))
                /\ InLists(cycle_difficulty_displayed(m))
                /\ InLists(reset_displayed_settings(m))
                /\ InLists(implement_displayed_settings(m))

\* The last entry of each list is staged after cycle calls, while the first
\* resolution is applied: the next call of each cycle operation finds its value.
C36_Witness ==
    /\ pc = "menu_model"
    /\ Len(calls) > 0
    /\ menu_model.settings.resolution = <<720, 480>>
    /\ menu_model.settings_select_display = (0 :> "BLUE" @@ 1 :> <<1296, 864>> @@ 2 :> 5)
    /\ cycle_difficulty_displayed(menu_model).settings_select_display[2] = 3
    /\ cycle_resolution_displayed(menu_model).settings_select_display[1] = <<720, 480>>

---------------------------------------------------------------------------
\* Whether the object is a Game Model (it has towers) or a Menu Model (it has
\* settings).
IsGameModel(m) == "towers" \in DOMAIN m
IsMenuModel(m) == "settings" \in DOMAIN m

\* C37: at every call of handle_input the mode passed in is GAME iff the
\* controller's model is a Game Model, and MENU iff it is a Menu Model; and whenever
\* the loop reads settings from the controller's model (in
\* check_and_update_settings with asset_package_updated or resolution_updated set,
\* in handle_program_state_change with next_state = GAME) that model is the Menu
\* Model.
C37_ModeMatchesModel ==
    /\ pc = "handle_user_input" =>
          /\ current_state \in {MENU, GAME}
          /\ current_state = GAME <=> IsGameModel(ActiveModel)
          /\ current_state = MENU <=> IsMenuModel(ActiveModel)
    /\ (pc = "check_and_update_settings"
          /\ (controller.asset_package_updated \/ controller.resolution_updated)) =>
          /\ IsMenuModel(ActiveModel)
          /\ ActiveModel = menu_model
    /\ (pc = "handle_program_state_change" /\ controller.next_state = GAME) =>
          /\ IsMenuModel(ActiveModel)
          /\ ActiveModel = menu_model

\* PLAY was clicked after a change of theme had been accepted: the loop is about to
\* read the difficulty from the controller's model, which is the Menu Model.
C37_Witness ==
    /\ pc = "handle_program_state_change"
    /\ controller.next_state = GAME
    /\ controller.model = "menu_model"
    /\ menu_model.settings.theme # "STANDARD"

---------------------------------------------------------------------------
\* C38: after a successful start the renderer's asset bundle is never None: a theme
\* reload (asset_package_updated) whose build_asset_container call fails does not
\* put None in the place of the renderer's assets.
C38_AssetsNeverNone ==
    renderer.assets # None

====
